---- MODULE Spec2Model ----
(***************************************************************************)
(* A model of the refactoring pipeline of QA-Playwright-Plugin: the parser *)
(* (clustering), the mapping engine, the code synthesizer's property       *)
(* rendering, the reconnaissance locator parser, the verification loop and *)
(* the orchestrator.                                                       *)
(*                                                                         *)
(* Strings of the program are sequences of one-character strings, so that  *)
(* toLowerCase, includes, split and the regular expressions of the source  *)
(* are computed on them character by character.                            *)
(***************************************************************************)
EXTENDS Integers, Sequences, FiniteSets, TLC

VARIABLES
    rawLines,        \* tokenize(): const lines = rawCode.split("\n")
    ti,              \* tokenize(): loop index i, 1-based
    tokens,          \* ActionToken[]: the parser's token list (tokenize's output, input of cluster, mapAllOrphans)
    ci,              \* cluster(): loop index i, 1-based
    clusters,        \* cluster(): const clusters
    currentCluster,  \* cluster(): let currentCluster
    clusterIndex,    \* cluster(): let clusterIndex
    cpc,             \* cluster(): "idle" | "loop" | "done"
    pageObjectIndex, \* PageObjectIndex: the classes in Object.entries order
    mi,              \* mapAllOrphans(): loop index i, 1-based
    mappings,        \* mapAllOrphans(): const mappings
    seen,            \* mapAllOrphans(): const seen
    mpc,             \* mapAllOrphans(): "idle" | "loop" | "done"
    maxRetries,      \* verifyAndFix(): parameter maxRetries
    attempt,         \* verifyAndFix(): loop variable attempt
    vpc,             \* verifyAndFix(): "idle" | "attempt" | "running" | "ran" | "done" | "thrown"
    result,          \* verifyAndFix(): const result = await runTest(...)
    verrors,         \* verifyAndFix(): const errors
    fixes,           \* verifyAndFix(): const fixes
    testFile,        \* the content of the file at testFilePath
    testRuns,        \* the number of child processes runTest has spawned
    outcome,         \* verifyAndFix(): the returned { passed, attempts }
    timeoutElapsed,  \* the time of options.timeout has passed since the caller started the run
    rorphan,         \* the LocatorInfo of a recorded token
    rstyle,          \* the StyleVector of the repository
    rmapping,        \* mapOrphan(): the SelectorMapping returned
    rline,           \* generateProperty(): the line returned
    rentry,          \* parseLocatorExpression(): the LocatorEntry returned
    rpc,             \* "idle" | "orphan" | "mapped" | "rendered" | "done"
    dryRun,          \* refactorPipeline(): options.dryRun
    repoPath,        \* refactorPipeline(): options.repoPath
    dirs,            \* the directories that exist
    files,           \* the files that exist (but the one at testFilePath), with their content
    repoContext,     \* refactorPipeline(): repoContext
    pindex,          \* refactorPipeline(): pageObjectIndex
    pmods,           \* refactorPipeline(): pageObjectMods
    pmi,             \* refactorPipeline(): position in for (const mod of pageObjectMods)
    generatedTest,   \* refactorPipeline(): generatedTest.content
    testFilePath,    \* refactorPipeline(): testFilePath
    perrors,         \* refactorPipeline(): errors
    modifiedFiles,   \* refactorPipeline(): modifiedFiles
    presult,         \* refactorPipeline(): the RefactorResult returned
    writes,          \* the paths written or created, in order
    ppc,             \* "idle" | "start" | "phase2" | "apply" | "verify" | "dry" | "returned"
    fixtureRegistry, \* FixtureRegistry: the fixtures in Object.entries order
    styleVector,     \* StyleVector: the style profile of the repository
    pageObjectMods,  \* generatePageObjectMods(): the PageObjectMod[] returned
    generatedTestFile, \* generateTestFile(): the GeneratedTest returned
    spc              \* synthesis: "idle" | "mods" | "done"

tokenizeVars == <<rawLines, ti>>

clusterVars == <<ci, clusters, currentCluster, clusterIndex, cpc>>

mapVars == <<pageObjectIndex, mi, mappings, seen, mpc>>

verifyVars == <<maxRetries, attempt, vpc, result, verrors, fixes, testFile, testRuns, outcome, timeoutElapsed>>

renderVars == <<rorphan, rstyle, rmapping, rline, rentry, rpc>>

pipelineVars == <<dryRun, repoPath, dirs, files, repoContext, pindex, pmods, pmi, generatedTest, testFilePath,
                  perrors, modifiedFiles, presult, writes, ppc>>

synthVars == <<fixtureRegistry, styleVector, pageObjectMods, generatedTestFile, spc>>

vars == <<tokenizeVars, tokens, clusterVars, mapVars, verifyVars, renderVars, pipelineVars, synthVars>>


(***************************************************************************)
(* Bounds                                                                  *)
(***************************************************************************)
MaxTokens == 3

MaxMapTokens == 2

MaxRetriesBound == 3

MaxValueLen == 2

\* the lines of a raw script
MaxLines == 2

\* verifyAndFix(testFilePath, repoPath, 3, verbose)
PipelineMaxRetries == 3

(***************************************************************************)
(* Strings                                                                 *)
(***************************************************************************)
UpperChars == <<"A", "B", "C", "D", "E", "F", "G", "H", "I", "J", "K", "L", "M", "N", "O", "P", "Q", "R", "S", "T", "U", "V", "W", "X", "Y", "Z">>

LowerChars == <<"a", "b", "c", "d", "e", "f", "g", "h", "i", "j", "k", "l", "m", "n", "o", "p", "q", "r", "s", "t", "u", "v", "w", "x", "y", "z">>

IndexIn(c, seq) ==
    IF \E k \in 1..Len(seq) : seq[k] = c
    THEN CHOOSE k \in 1..Len(seq) : seq[k] = c
    ELSE 0

toLowerCase(s) ==
    [k \in 1..Len(s) |->
        IF IndexIn(s[k], UpperChars) > 0 THEN LowerChars[IndexIn(s[k], UpperChars)] ELSE s[k]]

includes(s, sub) ==
    \E k \in 0..(Len(s) - Len(sub)) : SubSeq(s, k + 1, k + Len(sub)) = sub

SeqsUpTo(S, n) == UNION {[1..m -> S] : m \in 0..n}

Range(s) == {s[k] : k \in DOMAIN s}

toUpperCase(s) ==
    [k \in 1..Len(s) |->
        IF IndexIn(s[k], LowerChars) > 0 THEN UpperChars[IndexIn(s[k], LowerChars)] ELSE s[k]]

Whitespace == {" ", "\t", "\n"}

\* s.split(/[D]/) is SplitFrom(s, D, 1, <<>>): every delimiter character
\* separates, empty pieces are kept
RECURSIVE SplitFrom(_, _, _, _)
SplitFrom(s, D, k, cur) ==
    IF k > Len(s) THEN <<cur>>
    ELSE IF s[k] \in D THEN <<cur>> \o SplitFrom(s, D, k + 1, <<>>)
    ELSE SplitFrom(s, D, k + 1, Append(cur, s[k]))

\* pieces.filter(w => w.length > 0)
NonEmpty(pieces) == SelectSeq(pieces, LAMBDA w : w # <<>>)

\* s.split(/[D]+/): a run of delimiters separates once; an empty piece remains
\* only before a leading and after a trailing run
splitRuns(s, D) ==
    LET p == SplitFrom(s, D, 1, <<>>)
    IN  IF Len(p) <= 2 THEN p
        ELSE <<p[1]>> \o NonEmpty(SubSeq(p, 2, Len(p) - 1)) \o <<p[Len(p)]>>

\* s.replace(/suffix$/, replacement)
replaceSuffix(s, suffix, replacement) ==
    IF Len(s) >= Len(suffix) /\ SubSeq(s, Len(s) - Len(suffix) + 1, Len(s)) = suffix
    THEN SubSeq(s, 1, Len(s) - Len(suffix)) \o replacement
    ELSE s

RECURSIVE Concat(_)
Concat(pieces) == IF pieces = <<>> THEN <<>> ELSE pieces[1] \o Concat(Tail(pieces))

(***************************************************************************)
(* LocatorInfo and ActionToken                                             *)
(***************************************************************************)
\* locator: null
NullLocator == [type |-> "null", value |-> <<>>, name |-> <<>>, exact |-> "absent", isVariable |-> FALSE]

\* A LocatorInfo whose options are {}
Loc(type, value) == [type |-> type, value |-> value, name |-> <<>>, exact |-> "absent", isVariable |-> FALSE]

\* A LocatorInfo of getByRole(value, { name })
RoleLoc(value, name) == [type |-> "role", value |-> value, name |-> name, exact |-> "absent", isVariable |-> FALSE]

Tok(action, locator, value, isAssertion) ==
    [lineNumber |-> 0, actor |-> <<"p", "a", "g", "e">>, action |-> action, locator |-> locator, value |-> value,
     isAssertion |-> isAssertion]

\* tokenize numbers the tokens by their source line, in increasing order.
WithLines(f) == [k \in DOMAIN f |-> [f[k] EXCEPT !.lineNumber = k]]

fillEmail == Tok("fill", Loc("label", <<"E", "m", "a", "i", "l">>), <<"e", "m", "a", "i", "l">>, FALSE)

clickSubmit == Tok("click", RoleLoc(<<"b", "u", "t", "t", "o", "n">>, <<"S", "u", "b", "m", "i", "t">>), <<>>, FALSE)

ClusterTokenPool ==
    { Tok("goto", NullLocator, <<"/", "l", "o", "g", "i", "n">>, FALSE),
      fillEmail,
      clickSubmit,
      Tok("click", Loc("testid", <<"p", "r", "o", "f", "i", "l", "e", "-", "m", "e", "n", "u">>), <<>>, FALSE),
      Tok("click", Loc("testid", <<"s", "e", "t", "t", "i", "n", "g", "s">>), <<>>, FALSE),
      Tok("fill", Loc("placeholder", <<"S", "e", "a", "r", "c", "h">>), <<"s", "h", "o", "e", "s">>, FALSE),
      Tok("expect", Loc("text", <<"W", "e", "l", "c", "o", "m", "e">>), <<>>, TRUE),
      Tok("expect", Loc("testid", <<"l", "o", "g", "i", "n", "-", "f", "o", "r", "m">>), <<>>, TRUE) }

(***************************************************************************)
(* Parser: clustering                                                      *)
(***************************************************************************)
authKeywords ==
    << <<"e", "m", "a", "i", "l">>, <<"p", "a", "s", "s", "w", "o", "r", "d">>, <<"l", "o", "g", "i", "n">>, <<"s", "i", "g", "n", "i", "n">>, <<"s", "i", "g", "n", "-", "i", "n">>, <<"u", "s", "e", "r", "n", "a", "m", "e">>, <<"a", "u", "t", "h">>, <<"c", "r", "e", "d", "e", "n", "t", "i", "a", "l">> >>

containerKeywords ==
    << <<"m", "e", "n", "u">>, <<"d", "r", "o", "p", "d", "o", "w", "n">>, <<"m", "o", "d", "a", "l">>, <<"d", "i", "a", "l", "o", "g">>, <<"p", "o", "p", "u", "p">>, <<"p", "r", "o", "f", "i", "l", "e">>, <<"n", "a", "v">>, <<"s", "i", "d", "e", "b", "a", "r">> >>

\* isAuthRelated without value.toLowerCase()
isAuthRelated_caseSensitive(locator) ==
    /\ locator.type # "null"
    /\ \E k \in 1..Len(authKeywords) :
          \/ includes(locator.value, authKeywords[k])
          \/ includes(locator.name, authKeywords[k])

isAuthRelated(locator) ==
    /\ locator.type # "null"
    /\ \E k \in 1..Len(authKeywords) :
          \/ includes(toLowerCase(locator.value), authKeywords[k])
          \/ includes(toLowerCase(locator.name), authKeywords[k])

isContainerElement(locator) ==
    /\ locator.type # "null"
    /\ \E k \in 1..Len(containerKeywords) :
          \/ includes(toLowerCase(locator.value), containerKeywords[k])
          \/ includes(toLowerCase(locator.name), containerKeywords[k])

\* The intent string, as its template and the values spliced into it.
generateClusterIntent(c) ==
    CASE c.type = "NAVIGATION" ->
            LET gotos == SelectSeq(c.tokens, LAMBDA t : t.action = "goto")
            IN  IF Len(gotos) > 0
                THEN [text |-> "Navigate to", a |-> gotos[1].value, b |-> <<>>]
                ELSE [text |-> "Navigate", a |-> <<>>, b |-> <<>>]
      [] c.type = "AUTHENTICATION" -> [text |-> "Authenticate user / Login flow", a |-> <<>>, b |-> <<>>]
      [] c.type = "FORM_SUBMISSION" -> [text |-> "Fill form fields", a |-> <<>>, b |-> <<>>]
      [] c.type = "MENU_INTERACTION" ->
            LET clicks == SelectSeq(c.tokens, LAMBDA t : t.action = "click")
            IN  IF Len(clicks) >= 2
                THEN [text |-> "Open and select",
                      a |-> IF clicks[1].locator.value # <<>> THEN clicks[1].locator.value ELSE <<"m", "e", "n", "u">>,
                      b |-> IF clicks[Len(clicks)].locator.value # <<>>
                            THEN clicks[Len(clicks)].locator.value ELSE <<"i", "t", "e", "m">>]
                ELSE [text |-> "Menu interaction", a |-> <<>>, b |-> <<>>]
      [] c.type = "VERIFICATION" -> [text |-> "Verify expected state", a |-> <<>>, b |-> <<>>]
      [] OTHER -> [text |-> "Perform actions", a |-> <<>>, b |-> <<>>]

NewCluster(id, type, intent, toks) ==
    [id |-> id, type |-> type, intent |-> intent, tokens |-> toks, assertions |-> <<>>]

\* The push guarded by tokens.length > 1
PushIfNonEmpty_offByOne(cls, cur) ==
    IF Len(cur.tokens) > 1
    THEN Append(cls, [cur EXCEPT !.intent = generateClusterIntent(cur)])
    ELSE cls

\* if (currentCluster.tokens.length > 0) { intent = ...; clusters.push(currentCluster); clusterIndex++ }
PushIfNonEmpty(cls, cur) ==
    IF Len(cur.tokens) > 0
    THEN Append(cls, [cur EXCEPT !.intent = generateClusterIntent(cur)])
    ELSE cls

BumpIfNonEmpty(idx, cur) == IF Len(cur.tokens) > 0 THEN idx + 1 ELSE idx

\* Rule 1 without the cluster break: the goto joins the open cluster
ClusterRule1_noBreak ==
    /\ cpc = "loop" /\ ci <= Len(tokens)
    /\ tokens[ci].action = "goto"
    /\ currentCluster' = [currentCluster EXCEPT !.tokens = Append(@, tokens[ci])]
    /\ ci' = ci + 1
    /\ UNCHANGED <<tokenizeVars, tokens, clusters, clusterIndex, cpc, mapVars, verifyVars, renderVars, pipelineVars, synthVars>>

\* Rule 1: a goto closes the current cluster and opens a NAVIGATION cluster.
ClusterRule1 ==
    /\ cpc = "loop" /\ ci <= Len(tokens)
    /\ tokens[ci].action = "goto"
    /\ clusters' = PushIfNonEmpty(clusters, currentCluster)
    /\ clusterIndex' = BumpIfNonEmpty(clusterIndex, currentCluster)
    /\ currentCluster' = NewCluster(clusterIndex', "NAVIGATION",
                                    [text |-> "Navigate to", a |-> tokens[ci].value, b |-> <<>>],
                                    <<tokens[ci]>>)
    /\ ci' = ci + 1
    /\ UNCHANGED <<tokenizeVars, tokens, cpc, mapVars, verifyVars, renderVars, pipelineVars, synthVars>>

\* Rule 2: an assertion joins the current cluster.
ClusterRule2 ==
    /\ cpc = "loop" /\ ci <= Len(tokens)
    /\ tokens[ci].action # "goto"
    /\ tokens[ci].isAssertion
    /\ currentCluster' = [currentCluster EXCEPT !.assertions = Append(@, tokens[ci]),
                                                 !.tokens = Append(@, tokens[ci])]
    /\ ci' = ci + 1
    /\ UNCHANGED <<tokenizeVars, tokens, clusters, clusterIndex, cpc, mapVars, verifyVars, renderVars, pipelineVars, synthVars>>

\* Rule 3: an authentication-related locator opens or continues AUTHENTICATION.
ClusterRule3 ==
    /\ cpc = "loop" /\ ci <= Len(tokens)
    /\ tokens[ci].action # "goto"
    /\ ~tokens[ci].isAssertion
    /\ isAuthRelated(tokens[ci].locator)
    /\ IF currentCluster.type # "AUTHENTICATION"
       THEN /\ clusters' = PushIfNonEmpty(clusters, currentCluster)
            /\ clusterIndex' = BumpIfNonEmpty(clusterIndex, currentCluster)
            /\ currentCluster' = NewCluster(clusterIndex', "AUTHENTICATION",
                                            [text |-> "Login flow", a |-> <<>>, b |-> <<>>],
                                            <<tokens[ci]>>)
       ELSE /\ currentCluster' = [currentCluster EXCEPT !.tokens = Append(@, tokens[ci])]
            /\ UNCHANGED <<clusters, clusterIndex>>
    /\ ci' = ci + 1
    /\ UNCHANGED <<tokenizeVars, tokens, cpc, mapVars, verifyVars, renderVars, pipelineVars, synthVars>>

MenuPattern ==
    /\ tokens[ci].action = "click"
    /\ ci > 1
    /\ tokens[ci - 1].action = "click"
    /\ isContainerElement(tokens[ci - 1].locator)

\* Rule 4: a click after a click on a container re-types the current cluster in place.
ClusterRule4 ==
    /\ cpc = "loop" /\ ci <= Len(tokens)
    /\ tokens[ci].action # "goto"
    /\ ~tokens[ci].isAssertion
    /\ ~isAuthRelated(tokens[ci].locator)
    /\ MenuPattern
    /\ currentCluster' = [currentCluster EXCEPT !.type = "MENU_INTERACTION",
                                                 !.tokens = Append(@, tokens[ci])]
    /\ ci' = ci + 1
    /\ UNCHANGED <<tokenizeVars, tokens, clusters, clusterIndex, cpc, mapVars, verifyVars, renderVars, pipelineVars, synthVars>>

\* Rule 5: a fill/type opens or continues FORM_SUBMISSION.
ClusterRule5 ==
    /\ cpc = "loop" /\ ci <= Len(tokens)
    /\ tokens[ci].action # "goto"
    /\ ~tokens[ci].isAssertion
    /\ ~isAuthRelated(tokens[ci].locator)
    /\ ~MenuPattern
    /\ tokens[ci].action \in {"fill", "type"}
    /\ IF currentCluster.type # "FORM_SUBMISSION" /\ currentCluster.type # "AUTHENTICATION"
       THEN /\ clusters' = PushIfNonEmpty(clusters, currentCluster)
            /\ clusterIndex' = BumpIfNonEmpty(clusterIndex, currentCluster)
            /\ currentCluster' = NewCluster(clusterIndex', "FORM_SUBMISSION",
                                            [text |-> "Form input", a |-> <<>>, b |-> <<>>],
                                            <<tokens[ci]>>)
       ELSE /\ currentCluster' = [currentCluster EXCEPT !.tokens = Append(@, tokens[ci])]
            /\ UNCHANGED <<clusters, clusterIndex>>
    /\ ci' = ci + 1
    /\ UNCHANGED <<tokenizeVars, tokens, cpc, mapVars, verifyVars, renderVars, pipelineVars, synthVars>>

\* Default: the token joins the current cluster.
ClusterDefault ==
    /\ cpc = "loop" /\ ci <= Len(tokens)
    /\ tokens[ci].action # "goto"
    /\ ~tokens[ci].isAssertion
    /\ ~isAuthRelated(tokens[ci].locator)
    /\ ~MenuPattern
    /\ tokens[ci].action \notin {"fill", "type"}
    /\ currentCluster' = [currentCluster EXCEPT !.tokens = Append(@, tokens[ci])]
    /\ ci' = ci + 1
    /\ UNCHANGED <<tokenizeVars, tokens, clusters, clusterIndex, cpc, mapVars, verifyVars, renderVars, pipelineVars, synthVars>>

\* After the loop: push the final cluster and return clusters.
ClusterReturn ==
    /\ cpc = "loop"
    /\ ci > Len(tokens)
    /\ clusters' = PushIfNonEmpty(clusters, currentCluster)
    /\ cpc' = "done"
    /\ UNCHANGED <<tokenizeVars, tokens, ci, currentCluster, clusterIndex, mapVars, verifyVars, renderVars, pipelineVars, synthVars>>

\* The state of the components that are not running
Idle(running) ==
    /\ \/ "tokenize" \in running
       \/ /\ rawLines = <<>>
          /\ ti = 0
    /\ \/ "cluster" \in running
       \/ /\ ci = 0
          /\ clusters = <<>>
          /\ currentCluster = NewCluster(0, "GENERIC", [text |-> "", a |-> <<>>, b |-> <<>>], <<>>)
          /\ clusterIndex = 0
          /\ cpc = "idle"
    /\ \/ "map" \in running
       \/ /\ pageObjectIndex = <<>>
          /\ mi = 0
          /\ mappings = <<>>
          /\ seen = {}
          /\ mpc = "idle"
    /\ \/ "verify" \in running
       \/ /\ maxRetries = 0
          /\ attempt = 0
          /\ vpc = "idle"
          /\ result = [ran |-> FALSE, passed |-> FALSE, stderr |-> <<>>]
          /\ verrors = <<>>
          /\ fixes = <<>>
          /\ testFile = <<>>
          /\ testRuns = 0
          /\ outcome = [passed |-> FALSE, attempts |-> 0]
          /\ timeoutElapsed = FALSE
    /\ \/ "render" \in running
       \/ /\ rorphan = [type |-> "null", value |-> <<>>, name |-> <<>>, exact |-> "absent", isVariable |-> FALSE]
          /\ rstyle = [locatorStyle |-> "Native", propertyVisibility |-> <<>>, wrapperClassName |-> <<>>]
          /\ rmapping = [isNull |-> TRUE]
          /\ rline = <<>>
          /\ rentry = [propertyName |-> <<>>, selectorType |-> "null", selectorValue |-> <<>>, selectorName |-> <<>>]
          /\ rpc = "idle"
    /\ \/ "pipeline" \in running
       \/ /\ dryRun = FALSE
          /\ repoPath = <<>>
          /\ dirs = {}
          /\ files = <<>>
          /\ repoContext = [repoType |-> "UNKNOWN", pageObjectDir |-> <<"(null)">>, testDir |-> <<"(null)">>]
          /\ pindex = <<>>
          /\ pmods = <<>>
          /\ pmi = 0
          /\ generatedTest = <<>>
          /\ testFilePath = <<"(null)">>
          /\ perrors = <<>>
          /\ modifiedFiles = <<>>
          /\ presult = [success |-> FALSE, modifiedFiles |-> <<>>, generatedTestPath |-> <<"(null)">>, errors |-> <<>>]
          /\ writes = <<>>
          /\ ppc = "idle"
    /\ \/ "synth" \in running
       \/ /\ fixtureRegistry = <<>>
          /\ styleVector = [locatorStyle |-> "Native", propertyVisibility |-> <<>>, wrapperClassName |-> <<>>,
                            importStatements |-> <<>>]
          /\ pageObjectMods = <<>>
          /\ generatedTestFile = [fixtures |-> <<>>, content |-> <<>>]
          /\ spc = "idle"

InitCluster ==
    /\ tokens \in {WithLines(f) : f \in SeqsUpTo(ClusterTokenPool, MaxTokens)}
    /\ ci = 1
    /\ clusters = <<>>
    /\ currentCluster = NewCluster(0, "GENERIC", [text |-> "", a |-> <<>>, b |-> <<>>], <<>>)
    /\ clusterIndex = 0
    /\ cpc = "loop"
    /\ Idle({"cluster"})

NextCluster ==
    \/ ClusterRule1
    \/ ClusterRule2
    \/ ClusterRule3
    \/ ClusterRule4
    \/ ClusterRule5
    \/ ClusterDefault
    \/ ClusterReturn

SpecCluster == InitCluster /\ [][NextCluster]_vars

(***************************************************************************)
(* Mapping engine                                                          *)
(***************************************************************************)
\* A LocatorEntry of the index; selectorName is selectorOptions.name, <<>> when absent.
Entry(propertyName, selectorType, selectorValue, selectorName) ==
    [propertyName |-> propertyName, selectorType |-> selectorType,
     selectorValue |-> selectorValue, selectorName |-> selectorName]

PageObject(className, locators, methods) ==
    [className |-> className, locators |-> locators, methods |-> methods]

\* Scores and confidences are exact fractions n/d with d > 0.
Frac(n, d) == [n |-> n, d |-> d]

FracGe(x, y) == x.n * y.d >= y.n * x.d

\* x - y > 1/10
MarginAboveTenth(x, y) == 10 * (x.n * y.d - y.n * x.d) > x.d * y.d

NoMapping == [isNull |-> TRUE]

Mapping(selector, targetClass, targetProperty, isNewProperty, confidence, reasoning) ==
    [isNull |-> FALSE, selector |-> selector, targetClass |-> targetClass,
     targetProperty |-> targetProperty, isNewProperty |-> isNewProperty,
     confidence |-> confidence, reasoning |-> reasoning]

\* The condition of either return of directHitSearch for one indexed locator.
DirectHitOn(selector, locator) ==
    \/ locator.selectorValue = selector.value
    \/ /\ selector.type = "role" /\ locator.selectorType = "role"
       /\ selector.value = locator.selectorValue
       /\ selector.name = locator.selectorName

Min(S) == CHOOSE x \in S : \A y \in S : x <= y

directHitSearch(selector, index) ==
    LET classes == {c \in 1..Len(index) :
                        \E l \in 1..Len(index[c].locators) : DirectHitOn(selector, index[c].locators[l])}
    IN  IF classes = {} THEN NoMapping
        ELSE LET c == Min(classes)
                 l == Min({l \in 1..Len(index[c].locators) : DirectHitOn(selector, index[c].locators[l])})
             IN  Mapping(selector, index[c].className, index[c].locators[l].propertyName,
                         FALSE, Frac(1, 1), "Direct hit")

\* The class name of the first class holding the anchor's selector value, <<>> for null.
anchorInference(anchorToken, index) ==
    IF anchorToken.locator.type = "null" THEN <<>>
    ELSE LET classes == {c \in 1..Len(index) :
                            \E l \in 1..Len(index[c].locators) :
                                index[c].locators[l].selectorValue = anchorToken.locator.value}
         IN  IF classes = {} THEN <<>> ELSE index[Min(classes)].className

\* str.replace(/([a-z])([A-Z])/g, "$1 $2").replace(/[-_]/g, " ")
RECURSIVE SpaceOut(_, _)
SpaceOut(s, k) ==
    IF k > Len(s) THEN <<>>
    ELSE (IF s[k] \in {"-", "_"} THEN <<" ">> ELSE <<s[k]>>)
         \o (IF k < Len(s) /\ IndexIn(s[k], LowerChars) > 0 /\ IndexIn(s[k + 1], UpperChars) > 0 THEN <<" ">> ELSE <<>>)
         \o SpaceOut(s, k + 1)

camelToWords(str) ==
    LET cleaned == replaceSuffix(replaceSuffix(replaceSuffix(replaceSuffix(
                        str, <<"P", "a", "g", "e">>, <<>>), <<"B", "t", "n">>, <<"b", "u", "t", "t", "o", "n">>), <<"T", "x", "t", "b", "x">>, <<"t", "e", "x", "t", "b", "o", "x">>), <<"L", "b", "l">>, <<"l", "a", "b", "e", "l">>)
    IN  NonEmpty(splitRuns(toLowerCase(SpaceOut(cleaned, 1)), Whitespace))

\* The keyword set of generateResponsibilityProfile (its result is deduplicated).
generateResponsibilityProfile(poData) ==
    Range(camelToWords(poData.className))
    \cup UNION {Range(camelToWords(poData.locators[l].propertyName))
                \cup Range(SplitFrom(toLowerCase(poData.locators[l].selectorValue), {"-", "_"}, 1, <<>>)) :
                l \in 1..Len(poData.locators)}
    \cup UNION {Range(camelToWords(poData.methods[k])) : k \in 1..Len(poData.methods)}

extractSelectorKeywords(locator) ==
    Range(NonEmpty(SplitFrom(toLowerCase(locator.value), {"-", "_"} \cup Whitespace, 1, <<>>)))
    \cup (IF locator.type = "role" /\ locator.name # <<>>
          THEN Range(splitRuns(toLowerCase(locator.name), Whitespace))
          ELSE {})

\* intersection.length / union.size as the pair (intersection, union); 0 when the union is empty
calculateOverlapScore(keywords1, keywords2) ==
    IF Cardinality(keywords1 \cup keywords2) > 0
    THEN Frac(Cardinality(keywords1 \cap keywords2), Cardinality(keywords1 \cup keywords2))
    ELSE Frac(0, 1)

scoringGlobalKeywords ==
    { <<"h", "e", "a", "d", "e", "r">>, <<"n", "a", "v">>, <<"f", "o", "o", "t", "e", "r">>, <<"s", "i", "d", "e", "b", "a", "r">>, <<"t", "h", "e", "m", "e">>, <<"p", "r", "o", "f", "i", "l", "e">>, <<"m", "e", "n", "u">>, <<"l", "o", "g", "o", "u", "t">> }

tieBreakGlobalKeywords ==
    { <<"h", "e", "a", "d", "e", "r">>, <<"n", "a", "v">>, <<"f", "o", "o", "t", "e", "r">>, <<"s", "i", "d", "e", "b", "a", "r">>, <<"t", "h", "e", "m", "e">>, <<"p", "r", "o", "f", "i", "l", "e">>, <<"m", "e", "n", "u">> }

\* scores.sort((a, b) => b.score - a.score): descending, stable
RECURSIVE SortByScore(_)
SortByScore(s) ==
    IF s = <<>> THEN <<>>
    ELSE LET rest == SortByScore(SubSeq(s, 1, Len(s) - 1))
             x == s[Len(s)]
             pos == Cardinality({k \in 1..Len(rest) : FracGe(rest[k].score, x.score)})
         IN  SubSeq(rest, 1, pos) \o <<x>> \o SubSeq(rest, pos + 1, Len(rest))

\* base + 0.5 (anchor) + 0.2 (global element on a layout/base class), over the denominator 10 * union
ScoreOf(orphanKeywords, poData, anchorClass) ==
    LET base == calculateOverlapScore(orphanKeywords, generateResponsibilityProfile(poData))
        lower == toLowerCase(poData.className)
        anchorBoost == IF anchorClass = poData.className THEN 5 ELSE 0
        globalBoost == IF /\ orphanKeywords \cap scoringGlobalKeywords # {}
                          /\ (includes(lower, <<"l", "a", "y", "o", "u", "t">>) \/ includes(lower, <<"b", "a", "s", "e">>))
                       THEN 2 ELSE 0
    IN  Frac(10 * base.n + (anchorBoost + globalBoost) * base.d, 10 * base.d)

semanticScoring(orphan, index, anchorClass) ==
    SortByScore([c \in 1..Len(index) |->
        [className |-> index[c].className,
         score |-> ScoreOf(extractSelectorKeywords(orphan), index[c], anchorClass)]])

\* pageObjectIndex[className]?.locators.length || 0
LocatorCount(index, className) ==
    IF \E c \in 1..Len(index) : index[c].className = className
    THEN Len(index[CHOOSE c \in 1..Len(index) : index[c].className = className].locators)
    ELSE 0

UnknownPage == <<"U", "n", "k", "n", "o", "w", "n", "P", "a", "g", "e">>

\* applyTieBreakers with "" in place of the 'UnknownPage' fallback
applyTieBreakers_noFallback(candidates, orphan, index) ==
    IF Len(candidates) = 0 THEN <<>> ELSE candidates[1].className

applyTieBreakers(candidates, orphan, index) ==
    IF Len(candidates) = 0 THEN UnknownPage
    ELSE IF Len(candidates) = 1 \/ MarginAboveTenth(candidates[1].score, candidates[2].score)
    THEN candidates[1].className
    ELSE LET layouts == {k \in 1..Len(candidates) :
                            includes(toLowerCase(candidates[k].className), <<"l", "a", "y", "o", "u", "t">>)}
         IN  IF extractSelectorKeywords(orphan) \cap tieBreakGlobalKeywords # {} /\ layouts # {}
             THEN candidates[Min(layouts)].className
             ELSE IF LocatorCount(index, candidates[1].className) > LocatorCount(index, candidates[2].className)
             THEN candidates[1].className
             ELSE IF LocatorCount(index, candidates[2].className) > LocatorCount(index, candidates[1].className)
             THEN candidates[2].className
             ELSE candidates[1].className

\* word.charAt(0).toUpperCase() + word.slice(1)
Capitalize(word) == IF word = <<>> THEN <<>> ELSE toUpperCase(<<word[1]>>) \o SubSeq(word, 2, Len(word))

generatePropertyName(locator) ==
    LET baseName == IF locator.type = "role" /\ locator.name # <<>> THEN locator.name ELSE locator.value
        words == NonEmpty(splitRuns(toLowerCase(baseName), {"-", "_"} \cup Whitespace))
    IN  IF Len(words) = 0 THEN <<"e", "l", "e", "m", "e", "n", "t">>
        ELSE words[1] \o Concat([k \in 1..(Len(words) - 1) |-> Capitalize(words[k + 1])])

\* mapOrphan without step 1 (the direct hit search)
mapOrphan_noDirectHit(orphan, toks, tokenIndex, index) ==
    Mapping(orphan, applyTieBreakers(semanticScoring(orphan, index, <<>>), orphan, index),
            generatePropertyName(orphan), TRUE, Frac(1, 2), "Default mapping (no match found)")

\* tokenIndex is 1-based: the anchor is the token before it, null for the first token.
mapOrphan(orphan, toks, tokenIndex, index) ==
    LET directHit == directHitSearch(orphan, index)
        anchorToken == IF tokenIndex > 1 THEN toks[tokenIndex - 1] ELSE Tok("null", NullLocator, <<>>, FALSE)
        anchorClass == anchorInference(anchorToken, index)
        scores == semanticScoring(orphan, index, anchorClass)
        targetClass == applyTieBreakers(scores, orphan, index)
        winning == {k \in 1..Len(scores) : scores[k].className = targetClass}
        \* winningScore?.score || 0.5: a missing or zero score gives 0.5
        found == winning # {} /\ scores[Min(winning)].score.n # 0
    IN  IF ~directHit.isNull THEN directHit
        ELSE Mapping(orphan, targetClass, generatePropertyName(orphan), TRUE,
                     IF found THEN scores[Min(winning)].score ELSE Frac(1, 2),
                     IF winning # {} THEN "Scored" ELSE "Default mapping (no match found)")

\* JSON.stringify(locator.options): the keys in insertion order name, exact, isVariable
JSONOptions(locator) ==
    LET parts == (IF locator.name # <<>> THEN << <<"\"", "n", "a", "m", "e", "\"", ":", "\"">> \o locator.name \o <<"\"">> >> ELSE <<>>)
                 \o (IF locator.exact # "absent"
                     THEN << <<"\"", "e", "x", "a", "c", "t", "\"", ":">> \o (IF locator.exact = "true" THEN <<"t", "r", "u", "e">> ELSE <<"f", "a", "l", "s", "e">>) >>
                     ELSE <<>>)
                 \o (IF locator.isVariable THEN << <<"\"", "i", "s", "V", "a", "r", "i", "a", "b", "l", "e", "\"", ":", "t", "r", "u", "e">> >> ELSE <<>>)
    IN  <<"{">> \o Concat([k \in 1..Len(parts) |-> (IF k > 1 THEN <<",">> ELSE <<>>) \o parts[k]])
        \o <<"}">>

\* selectorKey without the options
selectorKey_noOptions(locator) ==
    <<locator.type, ":">> \o locator.value

\* `${type}:${value}:${JSON.stringify(options)}`
selectorKey(locator) ==
    <<locator.type, ":">> \o locator.value \o <<":">> \o JSONOptions(locator)

\* if (!token.locator) continue
MapSkipNoLocator ==
    /\ mpc = "loop" /\ mi <= Len(tokens)
    /\ tokens[mi].locator.type = "null"
    /\ mi' = mi + 1
    /\ UNCHANGED <<tokenizeVars, tokens, pageObjectIndex, mappings, seen, mpc, clusterVars, verifyVars, renderVars, pipelineVars, synthVars>>

\* if (seen.has(selectorKey)) continue
MapSkipSeen ==
    /\ mpc = "loop" /\ mi <= Len(tokens)
    /\ tokens[mi].locator.type # "null"
    /\ selectorKey(tokens[mi].locator) \in seen
    /\ mi' = mi + 1
    /\ UNCHANGED <<tokenizeVars, tokens, pageObjectIndex, mappings, seen, mpc, clusterVars, verifyVars, renderVars, pipelineVars, synthVars>>

\* seen.add(selectorKey); mappings.push(mapOrphan(...))
MapOrphanStep ==
    /\ mpc = "loop" /\ mi <= Len(tokens)
    /\ tokens[mi].locator.type # "null"
    /\ selectorKey(tokens[mi].locator) \notin seen
    /\ seen' = seen \cup {selectorKey(tokens[mi].locator)}
    /\ mappings' = Append(mappings, mapOrphan(tokens[mi].locator, tokens, mi, pageObjectIndex))
    /\ mi' = mi + 1
    /\ UNCHANGED <<tokenizeVars, tokens, pageObjectIndex, mpc, clusterVars, verifyVars, renderVars, pipelineVars, synthVars>>

MapReturn ==
    /\ mpc = "loop"
    /\ mi > Len(tokens)
    /\ mpc' = "done"
    /\ UNCHANGED <<tokenizeVars, tokens, pageObjectIndex, mi, mappings, seen, clusterVars, verifyVars, renderVars, pipelineVars, synthVars>>

\* Page objects
signInButton == <<"s", "i", "g", "n", "-", "i", "n", "-", "b", "u", "t", "t", "o", "n">>

LoginPageScenario ==
    PageObject(<<"L", "o", "g", "i", "n", "P", "a", "g", "e">>, <<Entry(<<"s", "i", "g", "n", "I", "n", "B", "t", "n">>, "testid", signInButton, <<>>)>>, <<>>)

LoginPageFull ==
    PageObject(<<"L", "o", "g", "i", "n", "P", "a", "g", "e">>,
               <<Entry(<<"e", "m", "a", "i", "l", "T", "x", "t", "b", "x">>, "label", <<"E", "m", "a", "i", "l">>, <<>>),
                 Entry(<<"s", "i", "g", "n", "I", "n", "B", "t", "n">>, "testid", signInButton, <<>>)>>,
               << <<"l", "o", "g", "i", "n">> >>)

LayoutPage ==
    PageObject(<<"L", "a", "y", "o", "u", "t", "P", "a", "g", "e">>,
               <<Entry(<<"p", "r", "o", "f", "i", "l", "e", "M", "e", "n", "u">>, "testid", <<"p", "r", "o", "f", "i", "l", "e", "-", "m", "e", "n", "u">>, <<>>),
                 Entry(<<"l", "o", "g", "o", "u", "t", "B", "t", "n">>, "role", <<"b", "u", "t", "t", "o", "n">>, <<"L", "o", "g", "o", "u", "t">>)>>,
               << <<"o", "p", "e", "n", "P", "r", "o", "f", "i", "l", "e", "M", "e", "n", "u">> >>)

BasePage ==
    PageObject(<<"B", "a", "s", "e", "P", "a", "g", "e">>,
               <<Entry(<<"p", "a", "g", "e", "T", "i", "t", "l", "e">>, "testid", <<"p", "a", "g", "e", "-", "t", "i", "t", "l", "e">>, <<>>),
                 Entry(<<"h", "o", "m", "e", "L", "o", "g", "o">>, "testid", <<"h", "o", "m", "e", "-", "l", "o", "g", "o">>, <<>>)>>,
               <<>>)

ThemePage ==
    PageObject(<<"T", "h", "e", "m", "e", "P", "a", "g", "e">>, <<Entry(<<"t", "h", "e", "m", "e", "L", "i", "n", "k">>, "testid", <<"t", "h", "e", "m", "e", "-", "p", "i", "c", "k", "e", "r">>, <<>>)>>, <<>>)

SettingsPage ==
    PageObject(<<"S", "e", "t", "t", "i", "n", "g", "s", "P", "a", "g", "e">>, <<Entry(<<"t", "h", "e", "m", "e", "L", "i", "n", "k">>, "testid", <<"t", "h", "e", "m", "e", "-", "l", "i", "n", "k">>, <<>>)>>, <<>>)

IndexPool ==
    { <<>>, <<LoginPageScenario>>, <<LoginPageFull, LayoutPage>>, <<LayoutPage, LoginPageFull>>,
      <<BasePage, LayoutPage>>, <<ThemePage, SettingsPage, LayoutPage>> }

MapTokenPool ==
    { Tok("goto", NullLocator, <<"/", "l", "o", "g", "i", "n">>, FALSE),
      fillEmail,
      clickSubmit,
      Tok("click", RoleLoc(<<"l", "i", "n", "k">>, <<"S", "u", "b", "m", "i", "t">>), <<>>, FALSE),
      Tok("click", RoleLoc(<<"l", "i", "n", "k">>, <<"T", "h", "e", "m", "e">>), <<>>, FALSE),
      Tok("click", Loc("testid", signInButton), <<>>, FALSE),
      Tok("expect", Loc("testid", signInButton), <<>>, TRUE),
      Tok("click", Loc("css", signInButton), <<>>, FALSE),
      Tok("click", Loc("testid", <<"p", "r", "o", "f", "i", "l", "e", "-", "m", "e", "n", "u">>), <<>>, FALSE),
      Tok("click", Loc("css", <<"#", "s", "u", "b", "m", "i", "t">>), <<>>, FALSE),
      Tok("click", Loc("testid", <<"l", "o", "g", "o", "u", "t", "-", "l", "i", "n", "k">>), <<>>, FALSE) }

InitMap ==
    /\ tokens \in {WithLines(f) : f \in SeqsUpTo(MapTokenPool, MaxMapTokens)}
    /\ pageObjectIndex \in IndexPool
    /\ mi = 1
    /\ mappings = <<>>
    /\ seen = {}
    /\ mpc = "loop"
    /\ Idle({"map"})

NextMap ==
    \/ MapSkipNoLocator
    \/ MapSkipSeen
    \/ MapOrphanStep
    \/ MapReturn

SpecMap == InitMap /\ [][NextMap]_vars

(***************************************************************************)
(* Properties of the mapping engine                                        *)
(***************************************************************************)
\* The distinct selectors (kind, value, qualifiers) carried by the tokens
DistinctSelectors == {tokens[k].locator : k \in {j \in 1..Len(tokens) : tokens[j].locator.type # "null"}}

\* C3: mapAllOrphans returns exactly one SelectorMapping per distinct selector
\* (kind, value, qualifiers) of the tokens: as many mappings as distinct
\* selectors, whatever the number of locator-bearing tokens.
C3_OneMappingPerSelector ==
    mpc = "done" =>
        /\ Len(mappings) = Cardinality(DistinctSelectors)
        /\ \A sel \in DistinctSelectors :
              Cardinality({j \in 1..Len(mappings) : mappings[j].selector = sel}) = 1

C3_Witness ==
    /\ mpc = "done"
    /\ Len(tokens) = 2
    /\ tokens[1].locator.type # "null"
    /\ tokens[1].locator = tokens[2].locator
    /\ tokens[1].action # tokens[2].action
    /\ Len(mappings) = 1

\* Some indexed locator entry has the selector's kind, value and name qualifier.
ExactlyIndexed(sel, index) ==
    \E c \in 1..Len(index) : \E l \in 1..Len(index[c].locators) :
        /\ index[c].locators[l].selectorType = sel.type
        /\ index[c].locators[l].selectorValue = sel.value
        /\ index[c].locators[l].selectorName = sel.name

\* C4: a selector whose (kind, value, qualifiers) matches an indexed locator
\* entry is mapped with confidence 1.0 and isNewProperty = false, whatever its
\* anchor and scores; with the single class LoginPage holding signInBtn
\* (testid 'sign-in-button'), getByTestId('sign-in-button') maps to
\* LoginPage.signInBtn.
C4_DirectHitPrecedence ==
    \A j \in 1..Len(mappings) :
        /\ ExactlyIndexed(mappings[j].selector, pageObjectIndex) =>
              /\ mappings[j].confidence.n = mappings[j].confidence.d
              /\ ~mappings[j].isNewProperty
        /\ (pageObjectIndex = <<LoginPageScenario>> /\ mappings[j].selector = Loc("testid", signInButton)) =>
              /\ mappings[j].targetClass = <<"L", "o", "g", "i", "n", "P", "a", "g", "e">>
              /\ mappings[j].targetProperty = <<"s", "i", "g", "n", "I", "n", "B", "t", "n">>
              /\ mappings[j].confidence.n = mappings[j].confidence.d
              /\ ~mappings[j].isNewProperty

C4_Witness ==
    /\ pageObjectIndex = <<LoginPageScenario>>
    /\ \E j \in 1..Len(mappings) :
          /\ j > 1
          /\ mappings[j].selector = Loc("testid", signInButton)
          /\ mappings[j].targetProperty = <<"s", "i", "g", "n", "I", "n", "B", "t", "n">>

\* C6: every locator-bearing token gets a mapping, for every index; with an
\* empty index each mapping targets the sentinel 'UnknownPage' as a new
\* property with confidence 0.5.
C6_MappingNeverFails ==
    /\ mpc = "done" =>
          \A k \in 1..Len(tokens) :
              tokens[k].locator.type # "null" =>
                  \E j \in 1..Len(mappings) :
                      ~mappings[j].isNull /\ mappings[j].selector = tokens[k].locator
    /\ pageObjectIndex = <<>> =>
          \A j \in 1..Len(mappings) :
              /\ mappings[j].targetClass = UnknownPage
              /\ mappings[j].isNewProperty
              /\ 2 * mappings[j].confidence.n = mappings[j].confidence.d

C6_Witness ==
    /\ mpc = "done"
    /\ pageObjectIndex = <<>>
    /\ Len(mappings) = 2
    /\ mappings[1].targetClass = UnknownPage

(***************************************************************************)
(* Properties of cluster()                                                 *)
(***************************************************************************)
RECURSIVE FlattenTokens(_)
FlattenTokens(cls) ==
    IF cls = <<>> THEN <<>> ELSE cls[1].tokens \o FlattenTokens(Tail(cls))

\* C1: the token lists of the clusters cluster() returns, concatenated in
\* cluster order, are the input token sequence: nothing lost, duplicated or
\* reordered.
C1_ClusterPartition ==
    cpc = "done" => FlattenTokens(clusters) = tokens

C1_Witness ==
    cpc = "done" /\ Len(tokens) = MaxTokens /\ Len(clusters) >= 2

FirstIsGoto(c) == c.tokens[1].action = "goto"

\* C2 as stated: in the output of cluster(), a cluster starts with a goto
\* token exactly when its type is NAVIGATION.
C2_NavigationBoundaryOriginal ==
    cpc = "done" =>
        \A k \in 1..Len(clusters) : (clusters[k].type = "NAVIGATION") <=> FirstIsGoto(clusters[k])

\* C2 amended: every NAVIGATION cluster starts with a goto token, and no
\* AUTHENTICATION, FORM_SUBMISSION, VERIFICATION or GENERIC cluster does; a
\* cluster that starts with a goto and is not NAVIGATION is a
\* MENU_INTERACTION cluster (Rule 4 re-typed the open NAVIGATION cluster).
C2_NavigationBoundary ==
    cpc = "done" =>
        \A k \in 1..Len(clusters) :
            /\ clusters[k].type = "NAVIGATION" => FirstIsGoto(clusters[k])
            /\ FirstIsGoto(clusters[k]) => clusters[k].type \in {"NAVIGATION", "MENU_INTERACTION"}

C2_Witness ==
    /\ cpc = "done"
    /\ Len(tokens) = MaxTokens
    /\ \E j, k \in 1..Len(clusters) :
          /\ clusters[j].type = "NAVIGATION" /\ FirstIsGoto(clusters[j])
          /\ clusters[k].type \in {"AUTHENTICATION", "FORM_SUBMISSION", "GENERIC"}

ScenarioTokens == WithLines(<<fillEmail, clickSubmit>>)

HoldsBoth(c) ==
    /\ \E n \in 1..Len(c.tokens) : c.tokens[n] = ScenarioTokens[1]
    /\ \E n \in 1..Len(c.tokens) : c.tokens[n] = ScenarioTokens[2]

\* C7 as stated: for fill(getByLabel('Email')) then
\* click(getByRole('button', {name:'Submit'})), clustering yields a
\* FORM_SUBMISSION cluster that contains both tokens.
C7_ScenarioFormSubmission ==
    (cpc = "done" /\ tokens = ScenarioTokens) =>
        \E k \in 1..Len(clusters) : clusters[k].type = "FORM_SUBMISSION" /\ HoldsBoth(clusters[k])

\* C7 amended: for that script clustering yields exactly one cluster, of type
\* AUTHENTICATION (the label 'Email' matches the authentication keywords,
\* Rule 3), and it contains both tokens.
C7_ScenarioAuthentication ==
    (cpc = "done" /\ tokens = ScenarioTokens) =>
        /\ Len(clusters) = 1
        /\ clusters[1].type = "AUTHENTICATION"
        /\ HoldsBoth(clusters[1])

C7_Witness ==
    cpc = "done" /\ tokens = ScenarioTokens /\ Len(clusters) = 1

(***************************************************************************)
(* Verification loop                                                       *)
(*                                                                         *)
(* A diagnostic text and a test file are sequences of lexemes: the         *)
(* literals the patterns of the verifier look for, and opaque text between *)
(* them.  A file is a sequence of lines, a line a sequence of lexemes.     *)
(***************************************************************************)
TimeoutExceeded == "Timeout 30000ms exceeded"

WaitingFor == "waiting for "

SubmitLocator == "locator('#submit')"

\* stderr.match(/head.*tail/s) for the places where head and tail occur: the
\* leftmost head that has a tail after it, and, .* being greedy and matching
\* line ends, the last tail.  <<>> when there is no match.
MatchSpan(heads, tails) ==
    LET starts == {i \in heads : \E j \in tails : j > i}
    IN  IF starts = {} THEN <<>>
        ELSE <<Min(starts), CHOOSE j \in tails : \A k \in tails : k <= j>>

ClassifiedError(type, message, locator, suggestion) ==
    [type |-> type, message |-> message, locator |-> locator, suggestion |-> suggestion]

\* ERROR_PATTERNS in order; the first matching pattern decides.  message is
\* match[0] (its cut to 200 characters is not modelled: determineFix reads
\* only literals that no cut can remove); locator is match[2] of the first
\* pattern, the text from the last "waiting for " to the end of stderr.
classifyError(stderr) ==
    LET at(lexemes) == {i \in 1..Len(stderr) : stderr[i] \in lexemes}
        timeoutWaiting == MatchSpan(at({TimeoutExceeded}), at({WaitingFor}))
        actionTimeout ==
            MatchSpan({i \in at({"Timeout"}) : i > 1 /\ stderr[i - 1] \in {"locator.click: ", "locator.fill: "}},
                      {j \in at({WaitingFor}) : j < Len(stderr) /\ stderr[j + 1] = "element"})
        expectedReceived == MatchSpan(at({"Expected:"}), at({"Received:"}))
        first(lexemes) == <<stderr[Min(at(lexemes))]>>
    IN  IF timeoutWaiting # <<>>
        THEN ClassifiedError("ElementNotFound", SubSeq(stderr, timeoutWaiting[1], Len(stderr)),
                             SubSeq(stderr, timeoutWaiting[2] + 1, Len(stderr)), "")
        ELSE IF actionTimeout # <<>>
        THEN ClassifiedError("ElementNotFound", SubSeq(stderr, actionTimeout[1] - 1, actionTimeout[2] + 1), <<>>, "")
        ELSE IF at({"locator.click: Element is intercepted", "locator.fill: Element is overlapped"}) # {}
        THEN ClassifiedError("ElementIntercepted",
                             first({"locator.click: Element is intercepted", "locator.fill: Element is overlapped"}),
                             <<>>, "")
        ELSE IF at({"intercepting pointer events"}) # {}
        THEN ClassifiedError("ElementIntercepted", <<"intercepting pointer events">>, <<>>, "")
        ELSE IF at({"MuiBackdrop-root"}) # {}
        THEN ClassifiedError("ElementIntercepted", <<"MuiBackdrop-root">>, <<>>, "Wait for backdrop to disappear")
        ELSE IF at({"Element is stale", "Element is detached"}) # {}
        THEN ClassifiedError("StaleElement", first({"Element is stale", "Element is detached"}), <<>>, "")
        ELSE IF at({"expect(received).toBeVisible()"}) # {}
        THEN ClassifiedError("AssertionFailed", <<"Assertion failed: toBeVisible">>, <<>>, "")
        ELSE IF expectedReceived # <<>>
        THEN ClassifiedError("AssertionFailed", SubSeq(stderr, expectedReceived[1], expectedReceived[2]), <<>>, "")
        ELSE IF at({"Test timeout of 30000ms exceeded"}) # {}
        THEN ClassifiedError("Timeout", <<"Test timeout of 30000ms exceeded">>, <<>>, "")
        ELSE ClassifiedError("Unknown", stderr, <<>>, "")

NoFix == [type |-> "null", code |-> <<>>]

FixAction(type, code) == [type |-> type, code |-> code]

VisibleWait == ".waitFor({ state: 'visible' });"

\* determineFix with a load-state wait under default in place of null
determineFix_defaultWait(error) ==
    IF error.type = "StaleElement" THEN FixAction("RE_QUERY", <<"// Re-query the element">>)
    ELSE FixAction("ADD_WAIT", <<"await ", "page.waitForLoadState('networkidle');">>)

determineFix(error) ==
    CASE error.type = "ElementNotFound" ->
            IF error.locator # <<>>
            THEN FixAction("ADD_WAIT", <<"await ">> \o error.locator \o <<VisibleWait>>)
            ELSE FixAction("ADD_WAIT", <<"await ", "page.waitForLoadState('networkidle');">>)
      [] error.type = "ElementIntercepted" ->
            \* message.includes("Backdrop") || suggestion?.includes("backdrop")
            IF (\E i \in 1..Len(error.message) : error.message[i] \in {"MuiBackdrop-root", "Backdrop is open"})
               \/ error.suggestion = "Wait for backdrop to disappear"
            THEN FixAction("ADD_WAIT",
                           <<"await ", "page.waitForSelector('.MuiBackdrop-root', { state: 'hidden' });">>)
            ELSE FixAction("MODIFY_CLICK", <<".click({ force: true })">>)
      [] error.type = "StaleElement" -> FixAction("RE_QUERY", <<"// Re-query the element">>)
      [] error.type = "AssertionFailed" ->
            FixAction("ADD_POLL",
                      <<"await ", "expect.poll(async () => /* condition */, { timeout: 15000 })", ".toBeTruthy();">>)
      [] error.type = "Timeout" ->
            FixAction("ADD_WAIT", <<"// Consider breaking down the test or increasing timeout">>)
      [] OTHER -> NoFix

\* line.includes(text), for the texts applyFix and analyzeTestFile look for
LineIncludes(line, text) ==
    \E i \in 1..Len(line) :
        CASE text = "waitFor" ->
                line[i] \in {"page.waitForURL('**/dashboard');", VisibleWait,
                             "page.waitForLoadState('networkidle');",
                             "page.waitForSelector('.MuiBackdrop-root', { state: 'hidden' });"}
          [] text = "await" -> line[i] = "await "
          [] OTHER -> line[i] = text

applyFix(fix, fileContent) ==
    CASE fix.type = "ADD_WAIT" ->
            LET testStarts == {i \in 1..Len(fileContent) : LineIncludes(fileContent[i], "test(")}
                targets == IF testStarts = {} THEN {}
                           ELSE {i \in (Min(testStarts) + 1)..Len(fileContent) :
                                    /\ LineIncludes(fileContent[i], "await")
                                    /\ ~LineIncludes(fileContent[i], "waitFor")}
            IN  IF targets = {} THEN fileContent
                ELSE SubSeq(fileContent, 1, Min(targets) - 1) \o <<fix.code>>
                     \o SubSeq(fileContent, Min(targets), Len(fileContent))
      [] fix.type = "MODIFY_CLICK" ->
            [i \in 1..Len(fileContent) |->
                [k \in 1..Len(fileContent[i]) |->
                    IF fileContent[i][k] = ".click();" THEN ".click({ force: true });" ELSE fileContent[i][k]]]
      [] fix.type = "ADD_POLL" ->
            \* await expect(X).toBeVisible() becomes await expect.poll(async () => await X.isVisible(), ...).toBeTruthy()
            [i \in 1..Len(fileContent) |->
                IF Len(fileContent[i]) = 4 /\ fileContent[i][1] = "await " /\ fileContent[i][2] = "expect("
                   /\ fileContent[i][4] = ").toBeVisible();"
                THEN <<"await ", "expect.poll(async () => await ", fileContent[i][3],
                       ".isVisible(), { timeout: 15000 }).toBeTruthy();">>
                ELSE fileContent[i]]
      [] OTHER -> fileContent

\* The file generateTestFile writes for goto, click, expect (one line per entry)
GeneratedTestContent ==
    << <<"import { test }", " from '../pages/fixture'">>,
       <<"import { expect } from '@playwright/test'">>,
       <<"test.describe(", "'login', () => {">>,
       <<"test(", "'QA Test: login', ", "async ({", " loginPage }) => {">>,
       <<"await ", "page.goto('/login');">>,
       <<"await ", "loginPage.signInBtn", ".click();">>,
       <<"await ", "expect(", "loginPage.welcome", ").toBeVisible();">>,
       <<"});">> >>

StderrPool ==
    { <<TimeoutExceeded, ".", WaitingFor, SubmitLocator>>,
      <<TimeoutExceeded, WaitingFor, SubmitLocator, "\n", "    at tests/login.spec.ts:5:40">>,
      <<TimeoutExceeded, WaitingFor>>,
      <<"locator.click: ", "Timeout", WaitingFor, "element">>,
      <<"<div class=", "MuiBackdrop-root", "> ", "intercepting pointer events">>,
      <<"<div class=", "MuiBackdrop-root", "> covers the page">>,
      <<"Element is detached">>,
      <<"Expected:", " visible", "Received:", " hidden">>,
      <<"Test timeout of 30000ms exceeded">>,
      <<"Error: browser has been closed">> }

\* runTest beyond the retry budget
VerifySpawn_offByOne ==
    /\ vpc = "attempt" /\ attempt <= maxRetries + 1
    /\ testRuns' = testRuns + 1
    /\ vpc' = "running"
    /\ UNCHANGED <<maxRetries, attempt, result, verrors, fixes, testFile, outcome, timeoutElapsed,
                   tokenizeVars, tokens, clusterVars, mapVars, renderVars, pipelineVars, synthVars>>

\* await runTest(testFilePath, repoRoot): the child process is spawned
VerifySpawn ==
    /\ vpc = "attempt" /\ attempt <= maxRetries
    /\ testRuns' = testRuns + 1
    /\ vpc' = "running"
    /\ UNCHANGED <<maxRetries, attempt, result, verrors, fixes, testFile, outcome, timeoutElapsed,
                   tokenizeVars, tokens, clusterVars, mapVars, renderVars, pipelineVars, synthVars>>

\* The time of the caller's timeout passes while the child process runs.
\* refactorPipeline does not read options.timeout and runTest sets no timer:
\* no handler runs.
VerifyTimeoutElapses ==
    /\ vpc = "running"
    /\ ~timeoutElapsed
    /\ timeoutElapsed' = TRUE
    /\ UNCHANGED <<maxRetries, attempt, vpc, result, verrors, fixes, testFile, testRuns, outcome,
                   tokenizeVars, tokens, clusterVars, mapVars, renderVars, pipelineVars, synthVars>>

\* runTest resolves: the child process has closed with code 0 (passed) or
\* not, or failed to start, with some diagnostic text.
VerifyRunTest ==
    /\ vpc = "running"
    /\ \E passed \in BOOLEAN : \E stderr \in StderrPool :
          result' = [ran |-> TRUE, passed |-> passed, stderr |-> IF passed THEN <<>> ELSE stderr]
    /\ vpc' = "ran"
    /\ UNCHANGED <<maxRetries, attempt, verrors, fixes, testFile, testRuns, outcome, timeoutElapsed,
                   tokenizeVars, tokens, clusterVars, mapVars, renderVars, pipelineVars, synthVars>>

\* if (result.passed) return { passed: true, attempts: attempt, ... }
VerifyPassed ==
    /\ vpc = "ran"
    /\ result.passed
    /\ outcome' = [passed |-> TRUE, attempts |-> attempt]
    /\ vpc' = "done"
    /\ UNCHANGED <<maxRetries, attempt, result, verrors, fixes, testFile, testRuns, timeoutElapsed,
                   tokenizeVars, tokens, clusterVars, mapVars, renderVars, pipelineVars, synthVars>>

\* classify, determine the fix, write the fixed file, next attempt
VerifyFix ==
    /\ vpc = "ran"
    /\ ~result.passed
    /\ determineFix(classifyError(result.stderr)) # NoFix
    /\ verrors' = Append(verrors, classifyError(result.stderr))
    /\ fixes' = Append(fixes, determineFix(classifyError(result.stderr)))
    /\ testFile' = applyFix(determineFix(classifyError(result.stderr)), testFile)
    /\ attempt' = attempt + 1
    /\ vpc' = "attempt"
    /\ UNCHANGED <<maxRetries, result, testRuns, outcome, timeoutElapsed,
                   tokenizeVars, tokens, clusterVars, mapVars, renderVars, pipelineVars, synthVars>>

\* if (!fix) break; return { passed: false, attempts: maxRetries, ... }
VerifyUnfixable ==
    /\ vpc = "ran"
    /\ ~result.passed
    /\ determineFix(classifyError(result.stderr)) = NoFix
    /\ verrors' = Append(verrors, classifyError(result.stderr))
    /\ outcome' = [passed |-> FALSE, attempts |-> maxRetries]
    /\ vpc' = "done"
    /\ UNCHANGED <<maxRetries, attempt, result, fixes, testFile, testRuns, timeoutElapsed,
                   tokenizeVars, tokens, clusterVars, mapVars, renderVars, pipelineVars, synthVars>>

\* the for loop ends: return { passed: false, attempts: maxRetries, ... }
VerifyExhausted ==
    /\ vpc = "attempt"
    /\ attempt > maxRetries
    /\ outcome' = [passed |-> FALSE, attempts |-> maxRetries]
    /\ vpc' = "done"
    /\ UNCHANGED <<maxRetries, attempt, result, verrors, fixes, testFile, testRuns, timeoutElapsed,
                   tokenizeVars, tokens, clusterVars, mapVars, renderVars, pipelineVars, synthVars>>

InitVerify ==
    /\ maxRetries \in 1..MaxRetriesBound
    /\ attempt = 1
    /\ vpc = "attempt"
    /\ result = [ran |-> FALSE, passed |-> FALSE, stderr |-> <<>>]
    /\ verrors = <<>>
    /\ fixes = <<>>
    /\ testFile = GeneratedTestContent
    /\ testRuns = 0
    /\ outcome = [passed |-> FALSE, attempts |-> 0]
    /\ timeoutElapsed = FALSE
    /\ tokens = <<>>
    /\ Idle({"verify"})

NextVerify ==
    \/ VerifySpawn
    \/ VerifyTimeoutElapses
    \/ VerifyRunTest
    \/ VerifyPassed
    \/ VerifyFix
    \/ VerifyUnfixable
    \/ VerifyExhausted

\* runTest resolves when the child process closes or fails to start, and the
\* steps between two runs are synchronous: every enabled step is taken.
SpecVerify == InitVerify /\ [][NextVerify]_vars /\ WF_vars(NextVerify)

(***************************************************************************)
(* Properties of verifyAndFix(), classifyError() and determineFix()        *)
(***************************************************************************)
VerifyDone == vpc = "done"

TimeoutWaitingForLocator(stderr) ==
    \E i \in 1..Len(stderr) : \E j \in (i + 1)..(Len(stderr) - 1) :
        stderr[i] = TimeoutExceeded /\ stderr[j] = WaitingFor /\ stderr[j + 1] = SubmitLocator

\* C9: whenever a failed execution's diagnostic text holds "Timeout <n>ms
\* exceeded ... waiting for L", the error classified from it is
\* ElementNotFound with locator exactly L, and the fix derived from it is a
\* visibility wait on L.
C9_TimeoutLocatorCaptured ==
    (vpc = "attempt" /\ result.ran /\ ~result.passed /\ TimeoutWaitingForLocator(result.stderr)) =>
        /\ verrors[Len(verrors)].type = "ElementNotFound"
        /\ verrors[Len(verrors)].locator = <<SubmitLocator>>
        /\ fixes[Len(fixes)] = FixAction("ADD_WAIT", <<"await ", SubmitLocator, VisibleWait>>)

(***************************************************************************)
(* Rendering a new property, and reading it back in a later reconnaissance *)
(***************************************************************************)
\* The quote characters of the patterns.  The backquote, the third of them,
\* cannot be written in a string here; no text of the model holds one.
Quotes == {"'", "\""}

WordChars == Range(UpperChars) \cup Range(LowerChars) \cup Range(<<"0", "1", "2", "3", "4", "5", "6", "7", "8", "9", "_">>)

\* the first position from i on whose character is not in S (Len(s) + 1 at the end)
FirstNot(s, i, S) == Min({j \in i..(Len(s) + 1) : j = Len(s) + 1 \/ s[j] \notin S})

CharAt(s, i) == IF i \in 1..Len(s) THEN s[i] ELSE ""

OccurrencesOf(s, literal) ==
    {i \in 1..Len(s) : i + Len(literal) - 1 <= Len(s) /\ SubSeq(s, i, i + Len(literal) - 1) = literal}

\* \s*\(\s*Q([^Q]+)Q read from position i, Q being the class of the three
\* quote characters: the positions of the two quotes, <<>> without a match
QuotedArgument(s, i) ==
    LET open == FirstNot(s, i, Whitespace)
        quote == FirstNot(s, open + 1, Whitespace)
        close == FirstNot(s, quote + 1, {s[k] : k \in 1..Len(s)} \ Quotes)
    IN  IF CharAt(s, open) = "(" /\ CharAt(s, quote) \in Quotes /\ close > quote + 1 /\ close <= Len(s)
        THEN <<quote, close>>
        ELSE <<>>

\* code.match(/name\s*\(\s*Q([^Q]+)Q\s*\)/) for the leftmost of the names:
\* <<>> or <<the name, group 1>>
MatchCall(code, names) ==
    LET hit(i, name) ==
            /\ i \in OccurrencesOf(code, name)
            /\ QuotedArgument(code, i + Len(name)) # <<>>
            /\ CharAt(code, FirstNot(code, QuotedArgument(code, i + Len(name))[2] + 1, Whitespace)) = ")"
        starts == {i \in 1..Len(code) : \E name \in names : hit(i, name)}
    IN  IF starts = {} THEN <<>>
        ELSE LET i == Min(starts)
                 name == CHOOSE name \in names : hit(i, name)
                 q == QuotedArgument(code, i + Len(name))
             IN  <<name, SubSeq(code, q[1] + 1, q[2] - 1)>>

\* code.match(ROLE_SELECTOR_PATTERN): <<>> or <<group 1, group 2>> (group 2 is
\* <<>> when the options object is absent)
MatchRole(code) ==
    LET name == <<"g", "e", "t", "B", "y", "R", "o", "l", "e">>
        tail(i) ==
            LET q == QuotedArgument(code, i + Len(name))
                next == FirstNot(code, q[2] + 1, Whitespace)
                brace == FirstNot(code, next + 1, Whitespace)
                closing == FirstNot(code, brace + 1, {code[k] : k \in 1..Len(code)} \ {"}"})
            IN  IF CharAt(code, next) = ")" THEN <<TRUE, <<>> >>
                ELSE IF /\ CharAt(code, next) = "," /\ CharAt(code, brace) = "{"
                        /\ closing > brace + 1 /\ closing <= Len(code)
                        /\ CharAt(code, FirstNot(code, closing + 1, Whitespace)) = ")"
                THEN <<TRUE, SubSeq(code, brace + 1, closing - 1)>>
                ELSE <<FALSE, <<>> >>
        hit(i) ==
            /\ i \in OccurrencesOf(code, name)
            /\ QuotedArgument(code, i + Len(name)) # <<>>
            /\ LET q == QuotedArgument(code, i + Len(name))
               IN  \A k \in (q[1] + 1)..(q[2] - 1) : code[k] \in WordChars
            /\ tail(i)[1]
        starts == {i \in 1..Len(code) : hit(i)}
    IN  IF starts = {} THEN <<>>
        ELSE LET q == QuotedArgument(code, Min(starts) + Len(name))
             IN  <<SubSeq(code, q[1] + 1, q[2] - 1), tail(Min(starts))[2]>>

\* roleMatch[2].match(/name:\s*Q([^Q]+)Q/): group 1, <<>> without a match
MatchNameOption(options) ==
    LET quoted(i) ==
            LET quote == FirstNot(options, i + 5, Whitespace)
                close == FirstNot(options, quote + 1, {options[k] : k \in 1..Len(options)} \ Quotes)
            IN  IF CharAt(options, quote) \in Quotes /\ close > quote + 1 /\ close <= Len(options)
                THEN <<quote, close>> ELSE <<>>
        starts == {i \in OccurrencesOf(options, <<"n", "a", "m", "e", ":">>) : quoted(i) # <<>>}
    IN  IF starts = {} THEN <<>>
        ELSE SubSeq(options, quoted(Min(starts))[1] + 1, quoted(Min(starts))[2] - 1)

\* code.match(/(\w+)\s*=/)?.[1] || "unknown"
MatchPropertyName(code) ==
    LET runEnd(i) == FirstNot(code, i, WordChars) - 1
        starts == {i \in 1..Len(code) :
                      code[i] \in WordChars /\ CharAt(code, FirstNot(code, runEnd(i) + 1, Whitespace)) = "="}
    IN  IF starts = {} THEN <<"u", "n", "k", "n", "o", "w", "n">>
        ELSE SubSeq(code, Min(starts), runEnd(Min(starts)))

NoEntry == [propertyName |-> <<>>, selectorType |-> "null", selectorValue |-> <<>>, selectorName |-> <<>>]

parseLocatorExpression(code) ==
    LET testIdMatch == MatchCall(code, { <<"g", "e", "t", "B", "y", "T", "e", "s", "t", "I", "d">> })
        roleMatch == MatchRole(code)
        cssMatch == MatchCall(code, { <<"l", "o", "c", "a", "t", "o", "r">> })
        textMatch == MatchCall(code, { <<"g", "e", "t", "B", "y", "L", "a", "b", "e", "l">>, <<"g", "e", "t", "B", "y", "P", "l", "a", "c", "e", "h", "o", "l", "d", "e", "r">>, <<"g", "e", "t", "B", "y", "T", "e", "x", "t">> })
    IN  IF testIdMatch # <<>>
        THEN Entry(MatchPropertyName(code), "testid", testIdMatch[2], <<>>)
        ELSE IF roleMatch # <<>>
        THEN Entry(MatchPropertyName(code), "role", roleMatch[1], MatchNameOption(roleMatch[2]))
        ELSE IF cssMatch # <<>>
        THEN Entry(MatchPropertyName(code), "css", cssMatch[2], <<>>)
        ELSE IF textMatch # <<>>
        THEN Entry(MatchPropertyName(code),
                   CASE textMatch[1] = <<"g", "e", "t", "B", "y", "L", "a", "b", "e", "l">> -> "label"
                     [] textMatch[1] = <<"g", "e", "t", "B", "y", "P", "l", "a", "c", "e", "h", "o", "l", "d", "e", "r">> -> "placeholder"
                     [] OTHER -> "text",
                   textMatch[2], <<>>)
        ELSE NoEntry

toTitleCase(str) ==
    LET words == splitRuns(str, {"-", "_"} \cup Whitespace)
        titled == [k \in 1..Len(words) |->
                      IF words[k] = <<>> THEN <<>>
                      ELSE toUpperCase(<<words[k][1]>>) \o toLowerCase(SubSeq(words[k], 2, Len(words[k])))]
    IN  IF Len(titled) = 0 THEN <<>>
        ELSE titled[1] \o Concat([k \in 1..(Len(titled) - 1) |-> <<" ">> \o titled[k + 1]])

generateLocatorExpression(locator) ==
    LET call(name) == name \o <<"(", "'">> \o locator.value \o <<"'", ")">>
        opts == (IF locator.name # <<>> THEN << <<"n", "a", "m", "e", ":", " ", "'">> \o locator.name \o <<"'">> >> ELSE <<>>)
                \o (IF locator.exact # "absent"
                    THEN << <<"e", "x", "a", "c", "t", ":", " ", "'">> \o (IF locator.exact = "true" THEN <<"t", "r", "u", "e">> ELSE <<"f", "a", "l", "s", "e">>) \o <<"'">> >>
                    ELSE <<>>)
    IN  CASE locator.type = "testid" -> call(<<"g", "e", "t", "B", "y", "T", "e", "s", "t", "I", "d">>)
          [] locator.type = "role" ->
                IF Len(opts) > 0
                THEN <<"g", "e", "t", "B", "y", "R", "o", "l", "e", "(", "'">> \o locator.value \o <<"'", ",", " ", "{", " ">> \o opts[1]
                     \o Concat([k \in 1..(Len(opts) - 1) |-> <<",", " ">> \o opts[k + 1]]) \o <<" ", "}", ")">>
                ELSE call(<<"g", "e", "t", "B", "y", "R", "o", "l", "e">>)
          [] locator.type = "label" -> call(<<"g", "e", "t", "B", "y", "L", "a", "b", "e", "l">>)
          [] locator.type = "placeholder" -> call(<<"g", "e", "t", "B", "y", "P", "l", "a", "c", "e", "h", "o", "l", "d", "e", "r">>)
          [] locator.type = "text" -> call(<<"g", "e", "t", "B", "y", "T", "e", "x", "t">>)
          [] locator.type = "xpath" -> <<"l", "o", "c", "a", "t", "o", "r", "(", "'", "x", "p", "a", "t", "h", "=">> \o locator.value \o <<"'", ")">>
          [] OTHER -> call(<<"l", "o", "c", "a", "t", "o", "r">>)

StyleVector(locatorStyle, propertyVisibility) ==
    [locatorStyle |-> locatorStyle, propertyVisibility |-> propertyVisibility, wrapperClassName |-> <<"W", "e", "b", "C", "o", "n", "t", "r", "o", "l">>]

generateProperty(mapping, style) ==
    LET propertyName == mapping.targetProperty
        locatorExpr == generateLocatorExpression(mapping.selector)
    IN  CASE style.locatorStyle = "WrapperClass" ->
                <<" ", " ">> \o style.propertyVisibility \o <<" ">> \o propertyName \o <<" ", "=", " ", "n", "e", "w", " ">> \o style.wrapperClassName
                \o <<"(", "t", "h", "i", "s", ".", "p", "a", "g", "e", ".">> \o locatorExpr \o <<",", " ", "'">> \o toTitleCase(mapping.selector.value) \o <<"'", ")">>
          [] style.locatorStyle = "Getter" ->
                <<" ", " ", "g", "e", "t", " ">> \o propertyName \o <<"(", ")", " ", "{", " ", "r", "e", "t", "u", "r", "n", " ", "t", "h", "i", "s", ".", "p", "a", "g", "e", ".">> \o locatorExpr \o <<";", " ", "}">>
          [] OTHER ->
                <<" ", " ">> \o style.propertyVisibility \o <<" ">> \o propertyName \o <<" ", "=", " ", "t", "h", "i", "s", ".", "p", "a", "g", "e", ".">> \o locatorExpr

\* The selector values parseLocator can capture: non-empty, no quote character.
\* Letters of both cases, a word delimiter and a character outside \w.
RenderValues == SeqsUpTo({"a", "B", "-", "#"}, MaxValueLen) \ {<<>>}

RenderLocators ==
    {Loc(type, value) : type \in {"testid", "label", "placeholder", "text", "css"}, value \in RenderValues}
    \cup {RoleLoc(<<"b", "u", "t", "t", "o", "n">>, name) : name \in RenderValues \cup {<<>>}}
    \cup {Loc("testid", signInButton)}

StylePool ==
    { StyleVector("Native", <<"r", "e", "a", "d", "o", "n", "l", "y">>), StyleVector("Native", <<"p", "r", "i", "v", "a", "t", "e">>),
      StyleVector("WrapperClass", <<"r", "e", "a", "d", "o", "n", "l", "y">>), StyleVector("Getter", <<"p", "u", "b", "l", "i", "c">>) }

\* mapOrphan for the only token of a recording
RenderMapOrphan ==
    /\ rpc = "orphan"
    /\ rmapping' = mapOrphan(rorphan, <<Tok("click", rorphan, <<>>, FALSE)>>, 1, <<LoginPageScenario>>)
    /\ rpc' = "mapped"
    /\ UNCHANGED <<rorphan, rstyle, rline, rentry, tokenizeVars, tokens, clusterVars, mapVars, verifyVars, pipelineVars, synthVars>>

\* generatePageObjectMods: newProperties.push(generateProperty(mapping, style))
RenderProperty ==
    /\ rpc = "mapped"
    /\ rmapping.isNewProperty
    /\ rline' = generateProperty(rmapping, rstyle)
    /\ rpc' = "rendered"
    /\ UNCHANGED <<rorphan, rstyle, rmapping, rentry, tokenizeVars, tokens, clusterVars, mapVars, verifyVars, pipelineVars, synthVars>>

\* generatePageObjectMods: if (!mapping.isNewProperty) continue
RenderSkip ==
    /\ rpc = "mapped"
    /\ ~rmapping.isNewProperty
    /\ rpc' = "done"
    /\ UNCHANGED <<rorphan, rstyle, rmapping, rline, rentry, tokenizeVars, tokens, clusterVars, mapVars, verifyVars, pipelineVars, synthVars>>

\* indexPageObjectFile on the line, in a later reconnaissance
RenderReparse ==
    /\ rpc = "rendered"
    /\ rentry' = parseLocatorExpression(rline)
    /\ rpc' = "done"
    /\ UNCHANGED <<rorphan, rstyle, rmapping, rline, tokenizeVars, tokens, clusterVars, mapVars, verifyVars, pipelineVars, synthVars>>

InitRender ==
    /\ rorphan \in RenderLocators
    /\ rstyle \in StylePool
    /\ rmapping = NoMapping
    /\ rline = <<>>
    /\ rentry = NoEntry
    /\ rpc = "orphan"
    /\ tokens = <<>>
    /\ Idle({"render"})

NextRender ==
    \/ RenderMapOrphan
    \/ RenderProperty
    \/ RenderSkip
    \/ RenderReparse

SpecRender == InitRender /\ [][NextRender]_vars

\* C8: a new-property mapping rendered in Native style and read back by
\* parseLocatorExpression gives the triple (propertyName, selectorType,
\* selectorValue) it was rendered from.
C8_NativeRoundTrip ==
    (rpc = "done" /\ rmapping.isNewProperty /\ rstyle.locatorStyle = "Native") =>
        /\ rentry.propertyName = rmapping.targetProperty
        /\ rentry.selectorType = rmapping.selector.type
        /\ rentry.selectorValue = rmapping.selector.value

(***************************************************************************)
(* Parser: tokenization                                                    *)
(*                                                                         *)
(* A line of the raw script is a sequence of characters; the patterns of   *)
(* the tokenizer are matched on it position by position.  A token keeps    *)
(* the fields the later phases read.                                       *)
(***************************************************************************)
\* parseLocator (of the parser): the LocatorInfo of a locator expression,
\* NullLocator for null
parseLocator(expression) ==
    LET \* the patterns of a call with one quoted argument, in the order they are tried
        kinds == <<"testid", "label", "placeholder", "text", "css">>
        calls == << <<"g", "e", "t", "B", "y", "T", "e", "s", "t", "I", "d">>, <<"g", "e", "t", "B", "y", "L", "a", "b", "e", "l">>, <<"g", "e", "t", "B", "y", "P", "l", "a", "c", "e", "h", "o", "l", "d", "e", "r">>, <<"g", "e", "t", "B", "y", "T", "e", "x", "t">>, <<"l", "o", "c", "a", "t", "o", "r">> >>
        \* /exact:\s*(true|false)/ on the options of getByRole
        exactOf(options) ==
            LET v(i) == FirstNot(options, i + 6, Whitespace)
                hits == {i \in OccurrencesOf(options, <<"e", "x", "a", "c", "t", ":">>) :
                            v(i) \in OccurrencesOf(options, <<"t", "r", "u", "e">>) \cup OccurrencesOf(options, <<"f", "a", "l", "s", "e">>)}
            IN  IF hits = {} THEN "absent"
                ELSE IF v(Min(hits)) \in OccurrencesOf(options, <<"t", "r", "u", "e">>) THEN "true"
                ELSE "false"
        \* trimmed.slice(1, -1)
        bare(first) ==
            SubSeq(expression, first + 1,
                   (CHOOSE k \in 0..Len(expression) :
                        /\ k = 0 \/ expression[k] \notin Whitespace
                        /\ \A m \in (k + 1)..Len(expression) : expression[m] \in Whitespace) - 1)
        \* value.match(/^[a-z0-9-_]+$/i)
        literal(value) ==
            IF value # <<>> /\ \A k \in 1..Len(value) : value[k] \in WordChars \cup {"-"}
            THEN Loc("testid", value)
            ELSE Loc("css", value)
        \* matches[k]: the match of the k-th call pattern
        from(first, matches, roleMatch) ==
            IF expression = <<>> THEN NullLocator
            ELSE IF matches[1] # <<>> THEN Loc(kinds[1], matches[1][2])
            ELSE IF roleMatch # <<>>
            THEN [type |-> "role", value |-> roleMatch[1], name |-> MatchNameOption(roleMatch[2]),
                  exact |-> exactOf(roleMatch[2]), isVariable |-> FALSE]
            ELSE IF \E k \in 2..5 : matches[k] # <<>>
            THEN LET k == Min({k \in 2..5 : matches[k] # <<>>})
                 IN  Loc(kinds[k], matches[k][2])
            ELSE IF CharAt(expression, first) \in Quotes THEN literal(bare(first))
            ELSE NullLocator
    IN  from(FirstNot(expression, 1, Whitespace),
             [k \in 1..5 |-> MatchCall(expression, {calls[k]})],
             MatchRole(expression))

\* tokenizeLine: the ActionToken of a line, a token with action "null" for null.
\* A match of a pattern is the tuple of the positions it binds, the position
\* where it begins first; the match used is the leftmost one.
tokenizeLine(line, lineNumber) ==
    LET token(action, locator, value, isAssertion) ==
            [Tok(action, locator, value, isAssertion) EXCEPT !.lineNumber = lineNumber]
        at(j, text) == j >= 1 /\ j + Len(text) - 1 <= Len(line) /\ SubSeq(line, j, j + Len(text) - 1) = text
        leftmost(S) == CHOOSE m \in S : \A n \in S : m[1] <= n[1]
        between(a, b) == SubSeq(line, a + 1, b - 1)
        \* the positions where the text after await\s+ begins
        afterAwait == {FirstNot(line, i + 5, Whitespace) :
                          i \in {i \in OccurrencesOf(line, <<"a", "w", "a", "i", "t">>) : CharAt(line, i + 5) \in Whitespace}}
        \* the last position of the run of word characters from j on (j - 1: no run)
        wordEnd(j) == FirstNot(line, j, WordChars) - 1
        \* \s*\(([^)]*)\) read from i: the positions of ( and ), <<>> without a match
        parensAt(open, close) == IF CharAt(line, open) = "(" /\ close <= Len(line) THEN <<open, close>> ELSE <<>>
        parensFrom(open) == parensAt(open, FirstNot(line, open + 1, Range(line) \ {")"}))
        parens(i) == parensFrom(FirstNot(line, i, Whitespace))
        \* name\s*\(\s*Q([^Q]+)Q\s*\) read from j: <<j, the two quotes>>
        closed(j, q) ==
            IF q # <<>> /\ CharAt(line, FirstNot(line, q[2] + 1, Whitespace)) = ")" THEN <<j, q[1], q[2]>> ELSE <<>>
        quotedCall(j, name) == IF at(j, name) THEN closed(j, QuotedArgument(line, j + Len(name))) ELSE <<>>
        \* page\.(locator|getBy\w+)\s*\(([^)]+)\) read from j: <<j, the end of the name, (, )>>
        locatorArgs(j, e, p) ==
            IF /\ at(j, <<"p", "a", "g", "e", ".">>)
               /\ \/ between(j + 4, e + 1) = <<"l", "o", "c", "a", "t", "o", "r">>
                  \/ e >= j + 10 /\ between(j + 4, j + 10) = <<"g", "e", "t", "B", "y">>
               /\ p # <<>> /\ p[2] > p[1] + 1
            THEN <<j, e, p[1], p[2]>>
            ELSE <<>>
        locatorName(j, e) == locatorArgs(j, e, parens(e + 1))
        locatorCall(j) == locatorName(j, wordEnd(j + 5))
        locatorExpr(m) == between(m[1] + 4, m[2] + 1) \o <<"(">> \o between(m[3], m[4]) \o <<")">>
        \* value.replace(/^Q|Q$/g, "")
        unquote(s) ==
            LET a == IF s # <<>> /\ s[1] \in Quotes THEN 2 ELSE 1
                b == IF s # <<>> /\ s[Len(s)] \in Quotes THEN Len(s) - 1 ELSE Len(s)
            IN  SubSeq(s, a, b)
        gotoAt == {quotedCall(j, <<"p", "a", "g", "e", ".", "g", "o", "t", "o">>) : j \in afterAwait} \ {<<>>}
        waitUrlAt == {quotedCall(j, <<"p", "a", "g", "e", ".", "w", "a", "i", "t", "F", "o", "r", "U", "R", "L">>) : j \in afterAwait} \ {<<>>}
        \* const\s+(\w+)\s*=\s*page... read from the name n: the match of the locator call
        varEquals(n, e, eq) ==
            IF e >= n /\ CharAt(line, eq) = "=" THEN locatorCall(FirstNot(line, eq + 1, Whitespace)) ELSE <<>>
        varName(n, e) == varEquals(n, e, FirstNot(line, e + 1, Whitespace))
        varFrom(n) == varName(n, wordEnd(n))
        varAt == {varFrom(FirstNot(line, i + 5, Whitespace)) :
                     i \in {i \in OccurrencesOf(line, <<"c", "o", "n", "s", "t">>) : CharAt(line, i + 5) \in Whitespace}} \ {<<>>}
        \* ...\.(\w+)\s*\(([^)]*)\) after the locator call m:
        \* <<j, the end of the name, (, ), the end of the action, (, )>>
        chainArgs(m, e, p) ==
            IF m # <<>> /\ CharAt(line, m[4] + 1) = "." /\ e >= m[4] + 2 /\ p # <<>>
            THEN <<m[1], m[2], m[3], m[4], e, p[1], p[2]>>
            ELSE <<>>
        chainAction(m, e) == chainArgs(m, e, parens(e + 1))
        chainFrom(m) == chainAction(m, IF m = <<>> THEN 0 ELSE wordEnd(m[4] + 2))
        chainAt == {chainFrom(locatorCall(j)) : j \in afterAwait} \ {<<>>}
        variableActions == { <<"c", "l", "i", "c", "k">>, <<"f", "i", "l", "l">>, <<"t", "y", "p", "e">>, <<"c", "h", "e", "c", "k">>, <<"u", "n", "c", "h", "e", "c", "k">>, <<"p", "r", "e", "s", "s">>, <<"h", "o", "v", "e", "r">>,
                             <<"d", "b", "l", "c", "l", "i", "c", "k">>, <<"t", "e", "x", "t", "C", "o", "n", "t", "e", "n", "t">>, <<"i", "n", "n", "e", "r", "T", "e", "x", "t">>, <<"i", "n", "p", "u", "t", "V", "a", "l", "u", "e">> }
        actionName(w) ==
            CASE w = <<"c", "l", "i", "c", "k">> -> "click" [] w = <<"f", "i", "l", "l">> -> "fill" [] w = <<"t", "y", "p", "e">> -> "type"
              [] w = <<"c", "h", "e", "c", "k">> -> "check" [] w = <<"u", "n", "c", "h", "e", "c", "k">> -> "uncheck" [] w = <<"p", "r", "e", "s", "s">> -> "press"
              [] w = <<"h", "o", "v", "e", "r">> -> "hover" [] w = <<"d", "b", "l", "c", "l", "i", "c", "k">> -> "dblclick"
              [] w = <<"t", "e", "x", "t", "C", "o", "n", "t", "e", "n", "t">> -> "textContent" [] w = <<"i", "n", "n", "e", "r", "T", "e", "x", "t">> -> "innerText"
              [] OTHER -> "inputValue"
        \* (\w+)\.(click|...)\s*\(([^)]*)\) read from j:
        \* <<j, the end of the variable, the end of the action, (, )>>
        varActionArgs(j, v, e, p) ==
            IF v >= j /\ CharAt(line, v + 1) = "." /\ between(v + 1, e + 1) \in variableActions /\ p # <<>>
            THEN <<j, v, e, p[1], p[2]>>
            ELSE <<>>
        varActionName(j, v, e) == varActionArgs(j, v, e, parens(e + 1))
        varActionVar(j, v) == varActionName(j, v, wordEnd(v + 2))
        varActionAt == {varActionVar(j, wordEnd(j)) : j \in afterAwait} \ {<<>>}
        assertions == { <<"t", "o", "B", "e", "V", "i", "s", "i", "b", "l", "e">>, <<"t", "o", "H", "a", "v", "e", "T", "e", "x", "t">>, <<"t", "o", "H", "a", "v", "e", "V", "a", "l", "u", "e">>, <<"t", "o", "C", "o", "n", "t", "a", "i", "n", "T", "e", "x", "t">>, <<"t", "o", "B", "e">>,
                        <<"t", "o", "H", "a", "v", "e", "C", "S", "S">>, <<"t", "o", "B", "e", "C", "h", "e", "c", "k", "e", "d">>, <<"t", "o", "B", "e", "E", "n", "a", "b", "l", "e", "d">>, <<"t", "o", "B", "e", "D", "i", "s", "a", "b", "l", "e", "d">> }
        \* the assertions that let the pattern go on after the ) at c
        asserted(c) == {a \in assertions : at(c + 2, a) /\ parens(c + 2 + Len(a)) # <<>>}
        \* expect\s*\(\s*(.*?)\s*\)\.(assertion)\s*\(([^)]*)\) read from j:
        \* <<j, (, the first ) that closes expect>>
        expectClosed(j, open, closes) == IF closes = {} THEN <<>> ELSE <<j, open, Min(closes)>>
        expectOpen(j, open) ==
            expectClosed(j, open,
                         IF at(j, <<"e", "x", "p", "e", "c", "t">>) /\ CharAt(line, open) = "("
                         THEN {c \in (open + 1)..Len(line) :
                                  line[c] = ")" /\ CharAt(line, c + 1) = "." /\ asserted(c) # {}}
                         ELSE {})
        expectAt == {expectOpen(j, FirstNot(line, j + 6, Whitespace)) : j \in afterAwait} \ {<<>>}
        \* group 1 of EXPECT_PATTERN: the text between the parentheses, trimmed
        trimmed(from, close) ==
            SubSeq(line, from, CHOOSE k \in (from - 1)..(close - 1) :
                                  /\ k = from - 1 \/ line[k] \notin Whitespace
                                  /\ \A m \in (k + 1)..(close - 1) : line[m] \in Whitespace)
        expectExpr(m) == trimmed(FirstNot(line, m[2] + 1, Whitespace), m[3])
        argsOf(p) == between(p[1], p[2])
        expectArgs(m) == argsOf(parens(m[3] + 2 + Len(CHOOSE a \in asserted(m[3]) : TRUE)))
        \* parseExpectLocator, parsed being parseLocator(expression)
        parseExpectLocator(expression, parsed) ==
            IF includes(expression, <<"p", "a", "g", "e", ".">>) THEN parsed
            ELSE IF /\ expression # <<>>
                    /\ \A k \in 1..Len(expression) : expression[k] \in WordChars \cup {"."}
                    /\ expression[1] # "." /\ expression[Len(expression)] # "."
                    /\ Cardinality({k \in 1..Len(expression) : expression[k] = "."}) <= 1
            THEN [type |-> "css",
                  value |-> SubSeq(expression, 1, FirstNot(expression, 1, WordChars) - 1),
                  name |-> <<>>, exact |-> "absent", isVariable |-> TRUE]
            ELSE NullLocator
        \* the locator expression of the first pattern with one that matches
        expression(var, chain, expect) ==
            IF var # {} THEN locatorExpr(leftmost(var))
            ELSE IF chain # {} THEN locatorExpr(leftmost(chain))
            ELSE IF expect # {} THEN expectExpr(leftmost(expect))
            ELSE <<>>
        chainToken(m, action, parsed) ==
            token(IF action \in { <<"f", "i", "l", "l">>, <<"t", "y", "p", "e">>, <<"c", "l", "i", "c", "k">>, <<"c", "h", "e", "c", "k">>, <<"t", "e", "x", "t", "C", "o", "n", "t", "e", "n", "t">> }
                  THEN actionName(action) ELSE "other",
                  parsed, unquote(between(m[6], m[7])), FALSE)
        \* the patterns in the order tokenizeLine tries them
        decide(first, goto, waitUrl, var, chain, varAction, expect, expr, parsed) ==
            IF first > Len(line) \/ at(first, <<"/", "/">>) \/ at(first, <<"/", "*">>) THEN token("null", NullLocator, <<>>, FALSE)
            ELSE IF at(first, <<"i", "m", "p", "o", "r", "t", " ">>) \/ at(first, <<"t", "e", "s", "t", "(">>) \/ at(first, <<"t", "e", "s", "t", ".", "d", "e", "s", "c", "r", "i", "b", "e">>)
            THEN token("null", NullLocator, <<>>, FALSE)
            ELSE IF goto # {} THEN token("goto", NullLocator, between(leftmost(goto)[2], leftmost(goto)[3]), FALSE)
            ELSE IF waitUrl # {}
            THEN token("waitForURL", NullLocator, between(leftmost(waitUrl)[2], leftmost(waitUrl)[3]), FALSE)
            ELSE IF var # {} THEN token("assign", parsed, <<>>, FALSE)
            ELSE IF chain # {}
            THEN chainToken(leftmost(chain), between(leftmost(chain)[4] + 1, leftmost(chain)[5] + 1), parsed)
            ELSE IF varAction # {}
            THEN [token(actionName(between(leftmost(varAction)[2] + 1, leftmost(varAction)[3] + 1)), NullLocator,
                        unquote(between(leftmost(varAction)[4], leftmost(varAction)[5])), FALSE)
                  EXCEPT !.actor = between(leftmost(varAction)[1] - 1, leftmost(varAction)[2] + 1)]
            ELSE IF expect # {}
            THEN token("expect", parseExpectLocator(expr, parsed), unquote(expectArgs(leftmost(expect))), TRUE)
            ELSE token("null", NullLocator, <<>>, FALSE)
        parse(first, goto, waitUrl, var, chain, varAction, expect, expr) ==
            decide(first, goto, waitUrl, var, chain, varAction, expect, expr, parseLocator(expr))
        match(first, goto, waitUrl, var, chain, varAction, expect) ==
            parse(first, goto, waitUrl, var, chain, varAction, expect, expression(var, chain, expect))
    IN  match(FirstNot(line, 1, Whitespace), gotoAt, waitUrlAt, varAt, chainAt, varActionAt, expectAt)

\* Group 2 of ACTION_DIRECT_PATTERN on a line whose first argument is a
\* quoted literal: the literal with its quotes; <<>> when the pattern does not
\* match so
directActionSelector(line) ==
    LET names == { <<"p", "a", "g", "e", ".", "c", "l", "i", "c", "k">>, <<"p", "a", "g", "e", ".", "f", "i", "l", "l">>, <<"p", "a", "g", "e", ".", "t", "y", "p", "e">>, <<"p", "a", "g", "e", ".", "c", "h", "e", "c", "k">>, <<"p", "a", "g", "e", ".", "u", "n", "c", "h", "e", "c", "k">>,
                   <<"p", "a", "g", "e", ".", "p", "r", "e", "s", "s">>, <<"p", "a", "g", "e", ".", "h", "o", "v", "e", "r">>, <<"p", "a", "g", "e", ".", "d", "b", "l", "c", "l", "i", "c", "k">>, <<"p", "a", "g", "e", ".", "s", "e", "l", "e", "c", "t", "O", "p", "t", "i", "o", "n">> }
        afterAwait == {FirstNot(line, a + 5, Whitespace) :
                          a \in {a \in OccurrencesOf(line, <<"a", "w", "a", "i", "t">>) : CharAt(line, a + 5) \in Whitespace}}
        hit(i, name) == i \in OccurrencesOf(line, name) /\ QuotedArgument(line, i + Len(name)) # <<>>
        hits == {i \in afterAwait : \E name \in names : hit(i, name)}
    IN  IF hits = {} THEN <<>>
        ELSE LET q == QuotedArgument(line, Min(hits) + Len(CHOOSE name \in names : hit(Min(hits), name)))
             IN  SubSeq(line, q[1], q[2])

\* const token = tokenizeLine(lines[i], i + 1); if (token) tokens.push(token)
TokenizeLineStep ==
    /\ ti >= 1 /\ ti <= Len(rawLines)
    /\ LET push(token) == IF token.action = "null" THEN tokens ELSE Append(tokens, token)
       IN  tokens' = push(tokenizeLine(rawLines[ti], ti))
    /\ ti' = ti + 1
    /\ UNCHANGED <<rawLines, clusterVars, mapVars, verifyVars, renderVars, pipelineVars, synthVars>>

\* The lines of the raw scripts of the model
RawLinePool ==
    { <<"/", "/", " ", "L", "o", "g", "i", "n">>,
      <<" ", " ", "a", "w", "a", "i", "t", " ", "p", "a", "g", "e", ".", "g", "o", "t", "o", "(", "'", "/", "l", "o", "g", "i", "n", "'", ")", ";">>,
      <<" ", " ", "a", "w", "a", "i", "t", " ", "p", "a", "g", "e", ".", "c", "l", "i", "c", "k", "(", "'", "#", "s", "u", "b", "m", "i", "t", "'", ")", ";">>,
      <<" ", " ", "a", "w", "a", "i", "t", " ", "p", "a", "g", "e", ".", "f", "i", "l", "l", "(", "'", "e", "m", "a", "i", "l", "'", ",", " ", "'", "a", "@", "b", ".", "c", "'", ")", ";">>,
      <<" ", " ", "a", "w", "a", "i", "t", " ", "p", "a", "g", "e", ".", "h", "o", "v", "e", "r", "(", "'", "m", "e", "n", "u", "'", ")", ";">>,
      <<" ", " ", "a", "w", "a", "i", "t", " ", "p", "a", "g", "e", ".", "s", "e", "l", "e", "c", "t", "O", "p", "t", "i", "o", "n", "(", "'", "#", "c", "o", "u", "n", "t", "r", "y", "'", ",", " ", "'", "D", "E", "'", ")", ";">>,
      <<" ", " ", "a", "w", "a", "i", "t", " ", "p", "a", "g", "e", ".", "g", "e", "t", "B", "y", "T", "e", "s", "t", "I", "d", "(", "'", "s", "u", "b", "m", "i", "t", "'", ")", ".", "c", "l", "i", "c", "k", "(", ")", ";">>,
      <<" ", " ", "a", "w", "a", "i", "t", " ", "p", "a", "g", "e", ".", "g", "e", "t", "B", "y", "R", "o", "l", "e", "(", "'", "b", "u", "t", "t", "o", "n", "'", ",", " ", "{", " ", "n", "a", "m", "e", ":", " ", "'", "S", "u", "b", "m", "i", "t", "'", ",", " ", "e", "x", "a", "c", "t", ":", " ", "t", "r", "u", "e", " ", "}", ")", ".", "c", "l", "i", "c", "k", "(", ")", ";">>,
      <<" ", " ", "a", "w", "a", "i", "t", " ", "p", "a", "g", "e", ".", "l", "o", "c", "a", "t", "o", "r", "(", "'", "#", "e", "m", "a", "i", "l", "'", ")", ".", "f", "i", "l", "l", "(", "'", "a", "@", "b", ".", "c", "'", ")", ";">>,
      <<" ", " ", "c", "o", "n", "s", "t", " ", "b", "t", "n", " ", "=", " ", "p", "a", "g", "e", ".", "g", "e", "t", "B", "y", "L", "a", "b", "e", "l", "(", "'", "E", "m", "a", "i", "l", "'", ")", ";">>,
      <<" ", " ", "a", "w", "a", "i", "t", " ", "b", "t", "n", ".", "c", "l", "i", "c", "k", "(", ")", ";">>,
      <<" ", " ", "a", "w", "a", "i", "t", " ", "e", "x", "p", "e", "c", "t", "(", "p", "a", "g", "e", ".", "g", "e", "t", "B", "y", "T", "e", "x", "t", "(", "'", "W", "e", "l", "c", "o", "m", "e", "'", ")", ")", ".", "t", "o", "B", "e", "V", "i", "s", "i", "b", "l", "e", "(", ")", ";">>,
      <<" ", " ", "a", "w", "a", "i", "t", " ", "e", "x", "p", "e", "c", "t", "(", "b", "t", "n", ")", ".", "t", "o", "H", "a", "v", "e", "T", "e", "x", "t", "(", "'", "G", "o", "'", ")", ";">> }

InitTokenize ==
    /\ rawLines \in SeqsUpTo(RawLinePool, MaxLines)
    /\ ti = 1
    /\ tokens = <<>>
    /\ Idle({"tokenize"})

SpecTokenize == InitTokenize /\ [][TokenizeLineStep]_vars

(***************************************************************************)
(* The pipeline                                                            *)
(*                                                                         *)
(* A path is a sequence of segments, relative to the working directory;    *)
(* path.join is concatenation and "." is <<>>.  dirs holds the directories *)
(* that exist, files the content of the files that exist, testFile the     *)
(* content of the file at testFilePath (<<>>: there is no such file).      *)
(* Phases II to IV compute in memory; what they stage is chosen here among *)
(* the modifications and test files they can produce.                      *)
(***************************************************************************)
PAGE_OBJECT_CANDIDATES ==
    << <<"pages">>, <<"page-objects">>, <<"po">>, <<"src", "pages">>, <<"lib", "pages">>, <<"src", "page-objects">> >>

TEST_DIR_CANDIDATES ==
    << <<"tests">>, <<"test">>, <<"e2e">>, <<"spec">>, <<"src", "tests">>, <<"__tests__">> >>

NullPath == <<"(null)">>

\* the first candidate that is a directory under repoRoot, NullPath if none is
FirstDirectory(repoRoot, candidates, directories) ==
    LET found == {k \in 1..Len(candidates) : repoRoot \o candidates[k] \in directories}
    IN  IF found = {} THEN NullPath ELSE candidates[Min(found)]

discoverStructure(repoRoot, directories) ==
    LET pageObjectDir == FirstDirectory(repoRoot, PAGE_OBJECT_CANDIDATES, directories)
    IN  [repoType |-> IF pageObjectDir = NullPath THEN "UNKNOWN" ELSE "STANDARD_POM",
         pageObjectDir |-> pageObjectDir,
         testDir |-> FirstDirectory(repoRoot, TEST_DIR_CANDIDATES, directories)]

\* content.match(/class\s+(\w+)/)?.[1], "" without a match
ClassNameOf(content) ==
    LET declared == {i \in 1..Len(content) : Len(content[i]) >= 2 /\ content[i][1] = "export class "}
    IN  IF declared = {} THEN "" ELSE content[Min(declared)][2]

\* the numbers of the lines indexPageObjectFile takes a locator from
LocatorLines(content) ==
    {i \in 1..Len(content) :
        /\ includes(content[i], <<"t", "h", "i", "s", ".", "p", "a", "g", "e", ".">>)
        /\ includes(content[i], <<"g", "e", "t", "B", "y">>) \/ includes(content[i], <<"l", "o", "c", "a", "t", "o", "r">>)
        /\ parseLocatorExpression(content[i]) # NoEntry}

\* findInsertionPoint (the files of the model declare no method)
findInsertionPoint(locatorLines, methodLines) ==
    IF locatorLines # {} THEN (CHOOSE x \in locatorLines : \A y \in locatorLines : y <= x) + 1
    ELSE IF methodLines # {} THEN Min(methodLines)
    ELSE 10

\* readdirSync(poDir) in its order, the files ending in .ts
PageObjectFiles == <<"LayoutPage.ts", "LoginPage.ts">>

\* indexPageObjects: for each file of the page object directory that declares
\* a class, the class name, the path it was read from and the insertion point
indexPageObjects(repoRoot, context, contents) ==
    IF context.pageObjectDir = NullPath THEN <<>>
    ELSE LET poDir == repoRoot \o context.pageObjectDir
             read == SelectSeq(PageObjectFiles,
                               LAMBDA file : /\ Append(poDir, file) \in DOMAIN contents
                                             /\ ClassNameOf(contents[Append(poDir, file)]) # "")
         IN  [k \in 1..Len(read) |->
                 [className |-> ClassNameOf(contents[Append(poDir, read[k])]),
                  filePath |-> Append(poDir, read[k]),
                  insertionPoint |-> findInsertionPoint(LocatorLines(contents[Append(poDir, read[k])]), {})]]

LoginPageFile ==
    << <<"export class ", "LoginPage", " {">>,
       <<" ", " ", "r", "e", "a", "d", "o", "n", "l", "y", " ", "s", "i", "g", "n", "I", "n", "B", "t", "n", " ", "=", " ", "t", "h", "i", "s", ".", "p", "a", "g", "e", ".", "g", "e", "t", "B", "y", "T", "e", "s", "t", "I", "d", "(", "'", "s", "i", "g", "n", "-", "i", "n", "-", "b", "u", "t", "t", "o", "n", "'", ")">>,
       <<"}">> >>

LayoutPageFile ==
    << <<"export class ", "LayoutPage", " {">>,
       <<" ", " ", "r", "e", "a", "d", "o", "n", "l", "y", " ", "p", "r", "o", "f", "i", "l", "e", "M", "e", "n", "u", " ", "=", " ", "t", "h", "i", "s", ".", "p", "a", "g", "e", ".", "g", "e", "t", "B", "y", "T", "e", "s", "t", "I", "d", "(", "'", "p", "r", "o", "f", "i", "l", "e", "-", "m", "e", "n", "u", "'", ")">>,
       <<>>,
       <<"}">> >>

\* applyPageObjectMod without the loop that skips blank lines
applyPageObjectMod_noBlankSkip(fileContent, mod) ==
    LET insertIndex == IF mod.insertionPoint > Len(fileContent) THEN Len(fileContent)
                       ELSE mod.insertionPoint - 1
        newContent ==
            (IF Len(mod.newProperties) > 0
             THEN << <<>>, <<"  // Auto-generated properties">> >> \o mod.newProperties ELSE <<>>)
            \o (IF Len(mod.newMethods) > 0
                THEN << <<>>, <<"  // Auto-generated methods">> >> \o mod.newMethods ELSE <<>>)
    IN  SubSeq(fileContent, 1, insertIndex) \o newContent \o SubSeq(fileContent, insertIndex + 1, Len(fileContent))

applyPageObjectMod(fileContent, mod) ==
    LET \* the lines from the insertion point on that are not blank
        rest == {i \in mod.insertionPoint..Len(fileContent) :
                    \E k \in 1..Len(fileContent[i]) : fileContent[i][k] \notin Whitespace \cup {""}}
        \* the number of lines before the inserted block
        insertIndex == IF mod.insertionPoint > Len(fileContent) THEN Len(fileContent)
                       ELSE IF rest = {} THEN Len(fileContent)
                       ELSE Min(rest) - 1
        newContent ==
            (IF Len(mod.newProperties) > 0
             THEN << <<>>, <<"  // Auto-generated properties">> >> \o mod.newProperties ELSE <<>>)
            \o (IF Len(mod.newMethods) > 0
                THEN << <<>>, <<"  // Auto-generated methods">> >> \o mod.newMethods ELSE <<>>)
    IN  SubSeq(fileContent, 1, insertIndex) \o newContent \o SubSeq(fileContent, insertIndex + 1, Len(fileContent))

\* The modification generatePageObjectMods stages for an indexed class that
\* gets one new property
StagedMod(poData) ==
    [filePath |-> poData.filePath,
     className |-> poData.className,
     newProperties |-> << <<" ", " ", "r", "e", "a", "d", "o", "n", "l", "y", " ", "s", "u", "b", "m", "i", "t", " ", "=", " ", "t", "h", "i", "s", ".", "p", "a", "g", "e", ".", "g", "e", "t", "B", "y", "T", "e", "s", "t", "I", "d", "(", "'", "s", "u", "b", "m", "i", "t", "'", ")">> >>,
     newMethods |-> <<>>,
     insertionPoint |-> poData.insertionPoint]

\* The modification generatePageObjectMods stages for an indexed class that
\* gets one new property and the method of one menu cluster; the method text
\* is joined with line breaks, so it reaches the file as three lines
StagedModWithMethod(poData) ==
    [filePath |-> poData.filePath,
     className |-> poData.className,
     newProperties |-> << <<" ", " ", "r", "e", "a", "d", "o", "n", "l", "y", " ", "s", "u", "b", "m", "i", "t", " ", "=", " ", "t", "h", "i", "s", ".", "p", "a", "g", "e", ".", "g", "e", "t", "B", "y", "T", "e", "s", "t", "I", "d", "(", "'", "s", "u", "b", "m", "i", "t", "'", ")">> >>,
     newMethods |-> << <<" ", " ", "p", "u", "b", "l", "i", "c", " ", "a", "s", "y", "n", "c", " ", "p", "e", "r", "f", "o", "r", "m", "M", "e", "n", "u", "A", "c", "t", "i", "o", "n", "(", ")", " ", "{">>,
                       <<" ", " ", " ", " ", "a", "w", "a", "i", "t", " ", "t", "h", "i", "s", ".", "s", "u", "b", "m", "i", "t", ".", "c", "l", "i", "c", "k", "(", ")", ";">>,
                       <<"  }">> >>,
     insertionPoint |-> poData.insertionPoint]

\* A generated test without an expect statement
GeneratedTestNoAssertion == SelectSeq(GeneratedTestContent, LAMBDA line : ~LineIncludes(line, "expect("))

\* A file that is at testFilePath before the run
OldTestContent == << <<"// TODO">> >>

analyzeTestFile(content) ==
    LET has(text) == \E i \in 1..Len(content) : LineIncludes(content[i], text)
    IN  IF content = <<>> THEN << <<"Test file does not exist">> >>
        ELSE (IF ~has("import { test }") THEN << <<"Missing test import statement">> >> ELSE <<>>)
             \o (IF ~has("test(") /\ ~has("test.describe(")
                 THEN << <<"No test() or test.describe() found">> >> ELSE <<>>)
             \o (IF ~has("expect(") THEN << <<"No assertions (expect) found in test">> >> ELSE <<>>)
             \o (IF ~has("async ({") THEN << <<"Test handler should be async">> >> ELSE <<>>)

RefactorResult(success, files_, generatedTestPath, errors) ==
    [success |-> success, modifiedFiles |-> files_, generatedTestPath |-> generatedTestPath, errors |-> errors]

\* Phase I under a mkdirSync of the test directory before anything is staged
PipelineReconnaissance_mkdirFirst ==
    /\ ppc = "start"
    /\ repoPath \in dirs
    /\ LET context == discoverStructure(repoPath, dirs)
       IN  /\ repoContext' = context
           /\ pindex' = indexPageObjects(repoPath, context, files)
           /\ perrors' = IF context.repoType = "UNKNOWN"
                         THEN Append(perrors, <<"Could not detect repository structure. Missing pages/ directory?">>)
                         ELSE perrors
    /\ dirs' = dirs \cup {repoPath \o <<"tests">>}
    /\ writes' = Append(writes, repoPath \o <<"tests">>)
    /\ ppc' = "phase2"
    /\ UNCHANGED <<dryRun, repoPath, files, pmods, pmi, generatedTest, testFilePath, modifiedFiles,
                   presult, verifyVars, tokenizeVars, tokens, clusterVars, mapVars, renderVars, synthVars>>

\* discoverStructure throws: the catch block returns
PipelineReconnaissanceThrows ==
    /\ ppc = "start"
    /\ repoPath \notin dirs
    /\ perrors' = Append(perrors, <<"Pipeline error: ", "Repository not found: ">>)
    /\ presult' = RefactorResult(FALSE, modifiedFiles, NullPath, perrors')
    /\ ppc' = "returned"
    /\ UNCHANGED <<dryRun, repoPath, dirs, files, repoContext, pindex, pmods, pmi, generatedTest, testFilePath,
                   modifiedFiles, writes, verifyVars, tokenizeVars, tokens, clusterVars, mapVars, renderVars, synthVars>>

\* Phase I
PipelineReconnaissance ==
    /\ ppc = "start"
    /\ repoPath \in dirs
    /\ LET context == discoverStructure(repoPath, dirs)
       IN  /\ repoContext' = context
           /\ pindex' = indexPageObjects(repoPath, context, files)
           /\ perrors' = IF context.repoType = "UNKNOWN"
                         THEN Append(perrors, <<"Could not detect repository structure. Missing pages/ directory?">>)
                         ELSE perrors
    /\ ppc' = "phase2"
    /\ UNCHANGED <<dryRun, repoPath, dirs, files, pmods, pmi, generatedTest, testFilePath, modifiedFiles,
                   presult, writes, verifyVars, tokenizeVars, tokens, clusterVars, mapVars, renderVars, synthVars>>

\* Phases II to IV throw (they run inside the try block; for instance the
\* RangeError of Math.max(...) in findInsertionPoint over a very long list of
\* locators): the catch block returns
PipelineSynthesizeThrows ==
    /\ ppc = "phase2"
    /\ perrors' = Append(perrors, <<"Pipeline error: ", "Maximum call stack size exceeded">>)
    /\ presult' = RefactorResult(FALSE, modifiedFiles, NullPath, perrors')
    /\ ppc' = "returned"
    /\ UNCHANGED <<dryRun, repoPath, dirs, files, repoContext, pindex, pmods, pmi, generatedTest, testFilePath,
                   modifiedFiles, writes, verifyVars, tokenizeVars, tokens, clusterVars, mapVars, renderVars, synthVars>>

\* Phases II to IV under if (dryRun) in place of if (!dryRun)
PipelineSynthesize_applyInDryRun ==
    /\ ppc = "phase2"
    /\ \E chosen \in SUBSET (1..Len(pindex)), withMethod \in SUBSET (1..Len(pindex)) :
          /\ withMethod \subseteq chosen
          /\ pmods' = [k \in 1..Cardinality(chosen) |->
                         LET i == CHOOSE i \in chosen : Cardinality({j \in chosen : j < i}) = k - 1
                         IN  IF i \in withMethod THEN StagedModWithMethod(pindex[i]) ELSE StagedMod(pindex[i])]
    /\ generatedTest' \in {GeneratedTestContent, GeneratedTestNoAssertion}
    /\ testFilePath' = repoPath
                       \o (IF repoContext.testDir = NullPath THEN <<"tests">> ELSE repoContext.testDir)
                       \o <<"login.spec.ts">>
    /\ pmi' = 1
    /\ ppc' = IF dryRun THEN "apply" ELSE "dry"
    /\ UNCHANGED <<dryRun, repoPath, dirs, files, repoContext, pindex, perrors, modifiedFiles, presult, writes,
                   verifyVars, tokenizeVars, tokens, clusterVars, mapVars, renderVars, synthVars>>

\* Phases II to IV: the staged modifications (for some of the indexed classes,
\* in index order), the generated test and its path; then if (!dryRun)
PipelineSynthesize ==
    /\ ppc = "phase2"
    /\ \E chosen \in SUBSET (1..Len(pindex)), withMethod \in SUBSET (1..Len(pindex)) :
          /\ withMethod \subseteq chosen
          /\ pmods' = [k \in 1..Cardinality(chosen) |->
                         LET i == CHOOSE i \in chosen : Cardinality({j \in chosen : j < i}) = k - 1
                         IN  IF i \in withMethod THEN StagedModWithMethod(pindex[i]) ELSE StagedMod(pindex[i])]
    /\ generatedTest' \in {GeneratedTestContent, GeneratedTestNoAssertion}
    /\ testFilePath' = repoPath
                       \o (IF repoContext.testDir = NullPath THEN <<"tests">> ELSE repoContext.testDir)
                       \o <<"login.spec.ts">>
    /\ pmi' = 1
    /\ ppc' = IF dryRun THEN "dry" ELSE "apply"
    /\ UNCHANGED <<dryRun, repoPath, dirs, files, repoContext, pindex, perrors, modifiedFiles, presult, writes,
                   verifyVars, tokenizeVars, tokens, clusterVars, mapVars, renderVars, synthVars>>

\* for (const mod of pageObjectMods): one iteration
PipelineApplyMod ==
    /\ ppc = "apply"
    /\ pmi <= Len(pmods)
    /\ LET mod == pmods[pmi]
           filePath == repoPath \o mod.filePath
       IN  IF filePath \in DOMAIN files
           THEN /\ files' = [p \in DOMAIN files |->
                                IF p = filePath THEN applyPageObjectMod(files[p], mod) ELSE files[p]]
                /\ writes' = Append(writes, filePath)
                /\ modifiedFiles' = Append(modifiedFiles, mod.filePath)
           ELSE UNCHANGED <<files, writes, modifiedFiles>>
    /\ pmi' = pmi + 1
    /\ UNCHANGED <<dryRun, repoPath, dirs, repoContext, pindex, pmods, generatedTest, testFilePath, perrors,
                   presult, ppc, verifyVars, tokenizeVars, tokens, clusterVars, mapVars, renderVars, synthVars>>

\* the catch block without errors.push
PipelineWriteThrows_noEntry ==
    /\ ppc = "apply"
    /\ presult' = RefactorResult(FALSE, modifiedFiles, NullPath, perrors)
    /\ ppc' = "returned"
    /\ UNCHANGED <<dryRun, repoPath, dirs, files, repoContext, pindex, pmods, pmi, generatedTest, testFilePath,
                   perrors, modifiedFiles, writes, verifyVars, tokenizeVars, tokens, clusterVars, mapVars, renderVars, synthVars>>

\* writeFileSync or mkdirSync throws: the catch block returns
PipelineWriteThrows ==
    /\ ppc = "apply"
    /\ perrors' = Append(perrors, <<"Pipeline error: ", "EACCES: permission denied">>)
    /\ presult' = RefactorResult(FALSE, modifiedFiles, NullPath, perrors')
    /\ ppc' = "returned"
    /\ UNCHANGED <<dryRun, repoPath, dirs, files, repoContext, pindex, pmods, pmi, generatedTest, testFilePath,
                   modifiedFiles, writes, verifyVars, tokenizeVars, tokens, clusterVars, mapVars, renderVars, synthVars>>

\* the test file is written; Phase V starts: verifyAndFix(testFilePath, repoPath, 3, verbose)
PipelineWriteTest ==
    /\ ppc = "apply"
    /\ pmi > Len(pmods)
    /\ LET testDir == SubSeq(testFilePath, 1, Len(testFilePath) - 1)
       IN  /\ dirs' = dirs \cup {testDir}
           /\ writes' = (IF testDir \in dirs THEN writes ELSE Append(writes, testDir)) \o <<testFilePath>>
    /\ testFile' = generatedTest
    /\ modifiedFiles' = Append(modifiedFiles, testFilePath)
    /\ maxRetries' = PipelineMaxRetries
    /\ attempt' = 1
    /\ vpc' = "attempt"
    /\ ppc' = "verify"
    /\ UNCHANGED <<dryRun, repoPath, files, repoContext, pindex, pmods, pmi, generatedTest, testFilePath, perrors,
                   presult, result, verrors, fixes, testRuns, outcome, timeoutElapsed,
                   tokenizeVars, tokens, clusterVars, mapVars, renderVars, synthVars>>

\* readFileSync or writeFileSync of verifyAndFix throws while the fix is
\* applied: verifyAndFix rejects with what it collected, the catch block of
\* refactorPipeline returns
PipelineVerifyThrows ==
    /\ ppc = "verify"
    /\ vpc = "ran"
    /\ ~result.passed
    /\ determineFix(classifyError(result.stderr)) # NoFix
    /\ verrors' = Append(verrors, classifyError(result.stderr))
    /\ fixes' = Append(fixes, determineFix(classifyError(result.stderr)))
    /\ vpc' = "thrown"
    /\ perrors' = Append(perrors, <<"Pipeline error: ", "ENOENT: no such file or directory">>)
    /\ presult' = RefactorResult(FALSE, modifiedFiles, NullPath, perrors')
    /\ ppc' = "returned"
    /\ UNCHANGED <<dryRun, repoPath, dirs, files, repoContext, pindex, pmods, pmi, generatedTest, testFilePath,
                   modifiedFiles, writes, maxRetries, attempt, result, testFile, testRuns, outcome, timeoutElapsed,
                   tokenizeVars, tokens, clusterVars, mapVars, renderVars, synthVars>>

\* verifyAndFix has returned
PipelineReturn ==
    /\ ppc = "verify"
    /\ vpc = "done"
    /\ perrors' = IF outcome.passed THEN perrors
                  ELSE perrors \o [k \in 1..Len(verrors) |-> <<verrors[k].type, ": ">> \o verrors[k].message]
    /\ presult' = RefactorResult(outcome.passed, modifiedFiles, testFilePath, perrors')
    /\ ppc' = "returned"
    /\ UNCHANGED <<dryRun, repoPath, dirs, files, repoContext, pindex, pmods, pmi, generatedTest, testFilePath,
                   modifiedFiles, writes, verifyVars, tokenizeVars, tokens, clusterVars, mapVars, renderVars, synthVars>>

\* the else branch: analyzeTestFile(testFilePath) reads the file at that path
PipelineDryRun ==
    /\ ppc = "dry"
    /\ perrors' = perrors \o analyzeTestFile(testFile)
    /\ presult' = RefactorResult(TRUE, <<>>, NullPath, perrors')
    /\ ppc' = "returned"
    /\ UNCHANGED <<dryRun, repoPath, dirs, files, repoContext, pindex, pmods, pmi, generatedTest, testFilePath,
                   modifiedFiles, writes, verifyVars, tokenizeVars, tokens, clusterVars, mapVars, renderVars, synthVars>>

\* The repositories of the model, for a repository path
RepoLayouts(root) ==
    { [dirs |-> {<<>>}, files |-> <<>>],
      [dirs |-> {<<>>, root}, files |-> <<>>],
      [dirs |-> {<<>>, root, root \o <<"pages">>},
       files |-> (root \o <<"pages", "LoginPage.ts">> :> LoginPageFile)],
      [dirs |-> {<<>>, root, root \o <<"pages">>, root \o <<"tests">>},
       files |-> (root \o <<"pages", "LoginPage.ts">> :> LoginPageFile)
                 @@ (root \o <<"pages", "LayoutPage.ts">> :> LayoutPageFile)] }

InitPipeline ==
    /\ dryRun \in BOOLEAN
    /\ repoPath \in {<<>>, <<"repo">>}
    /\ \E layout \in RepoLayouts(repoPath) : dirs = layout.dirs /\ files = layout.files
    /\ testFile \in {<<>>, OldTestContent}
    /\ repoContext = [repoType |-> "UNKNOWN", pageObjectDir |-> NullPath, testDir |-> NullPath]
    /\ pindex = <<>>
    /\ pmods = <<>>
    /\ pmi = 0
    /\ generatedTest = <<>>
    /\ testFilePath = NullPath
    /\ perrors = <<>>
    /\ modifiedFiles = <<>>
    /\ presult = RefactorResult(FALSE, <<>>, NullPath, <<>>)
    /\ writes = <<>>
    /\ ppc = "start"
    /\ maxRetries = 0
    /\ attempt = 0
    /\ vpc = "idle"
    /\ result = [ran |-> FALSE, passed |-> FALSE, stderr |-> <<>>]
    /\ verrors = <<>>
    /\ fixes = <<>>
    /\ testRuns = 0
    /\ outcome = [passed |-> FALSE, attempts |-> 0]
    /\ timeoutElapsed = FALSE
    /\ tokens = <<>>
    /\ Idle({"verify", "pipeline"})

NextPipeline ==
    \/ PipelineReconnaissanceThrows
    \/ PipelineReconnaissance
    \/ PipelineSynthesizeThrows
    \/ PipelineSynthesize
    \/ PipelineApplyMod
    \/ PipelineWriteThrows
    \/ PipelineWriteTest
    \/ VerifySpawn
    \/ VerifyTimeoutElapses
    \/ VerifyRunTest
    \/ VerifyPassed
    \/ VerifyFix
    \/ VerifyUnfixable
    \/ VerifyExhausted
    \/ PipelineVerifyThrows
    \/ PipelineReturn
    \/ PipelineDryRun

SpecPipeline == InitPipeline /\ [][NextPipeline]_vars

PipelineReturned == ppc = "returned"

\* C10: in a run with dryRun = true no step creates or modifies a file or a
\* directory or starts a test execution, whichever path the run takes, and
\* the result it returns reports modifiedFiles empty.
C10_DryRunWritesNothing ==
    /\ [][dryRun => UNCHANGED <<dirs, files, testFile, writes, testRuns>>]_vars
    /\ [](dryRun => writes = <<>> /\ testRuns = 0)
    /\ []((dryRun /\ PipelineReturned) => presult.modifiedFiles = <<>>)

\* a dry run that staged a modification of an existing page object file and
\* a test file, and has returned
C10_Witness ==
    /\ dryRun
    /\ PipelineReturned
    /\ presult.success
    /\ Len(pmods) > 0
    /\ repoPath \o pmods[1].filePath \in DOMAIN files
    /\ generatedTest # <<>>

\* what Phase I has pushed to errors when the dry-run branch is reached
ReconnaissanceWarnings ==
    IF repoContext.repoType = "UNKNOWN"
    THEN << <<"Could not detect repository structure. Missing pages/ directory?">> >>
    ELSE <<>>

\* C11: a dry run that reaches its analysis reports, after the warning of
\* Phase I, exactly the warnings for the elements (import, test declaration,
\* assertion, async handler) missing from the generated test content, which
\* was not written.
C11_DryRunAnalysesGenerated ==
    (dryRun /\ PipelineReturned /\ presult.success)
        => presult.errors = ReconnaissanceWarnings \o analyzeTestFile(generatedTest)

\* a step that creates or changes a directory or a file
WritesRepository == dirs' # dirs \/ files' # files \/ testFile' # testFile \/ writes' # writes

\* the run has returned from the catch block before Phase IV completed
FailedBeforeStaging == PipelineReturned /\ ~presult.success /\ generatedTest = <<>>

\* C12: every step of refactorPipeline that writes a directory or a file is
\* taken after the page object modifications and the generated test were
\* computed (Phases I to IV are over), and a run that fails in one of Phases
\* I to IV returns with nothing written.
C12_StagedBeforeWrites ==
    /\ [][WritesRepository => (ppc \in {"apply", "verify"} /\ pmi >= 1 /\ generatedTest # <<>>)]_vars
    /\ [](FailedBeforeStaging => writes = <<>>)

\* a run on a repository with indexed page objects that threw in Phases II to
\* IV (not a dry run), and has returned
C12_Witness ==
    /\ FailedBeforeStaging
    /\ ~dryRun
    /\ Len(pindex) > 0
    /\ writes = <<>>
    /\ presult.modifiedFiles = <<>>

\* a step in which a phase throws
PipelineThrows ==
    \/ PipelineReconnaissanceThrows
    \/ PipelineSynthesizeThrows
    \/ PipelineWriteThrows
    \/ PipelineVerifyThrows

PipelineErrorEntries(errors) == {k \in 1..Len(errors) : errors[k][1] = "Pipeline error: "}

\* The number of steps a run can still take is below this measure.
PipelineMeasure ==
    CASE ppc = "start" -> 100
      [] ppc = "phase2" -> 90
      [] ppc = "apply" -> 80 - pmi
      [] ppc = "dry" -> 10
      [] ppc = "verify" -> 10 + 6 * (PipelineMaxRetries + 1 - attempt)
                              + (CASE vpc = "attempt" -> 4
                                   [] vpc = "running" -> IF timeoutElapsed THEN 2 ELSE 3
                                   [] vpc = "ran" -> 1
                                   [] OTHER -> 0)
      [] OTHER -> 0

\* C13: every step of refactorPipeline brings the run nearer to its return
\* and every point before the return has a next step, so a run whose test
\* processes close returns; a step in which a phase throws returns at once,
\* with success = false and the errors collected so far followed by exactly
\* one "Pipeline error: ..." entry; an exception of verifyAndFix does not
\* leave the pipeline; the result of a run in which no phase threw has no
\* such entry.
C13_AlwaysStructuredResult ==
    /\ [][PipelineMeasure' < PipelineMeasure /\ PipelineMeasure' >= 0]_vars
    /\ [](ppc \in {"start", "phase2", "apply", "dry", "verify", "returned"})
    /\ [](ppc = "verify" => vpc \in {"attempt", "running", "ran", "done"})
    /\ [](vpc = "thrown" => PipelineReturned)
    /\ [][PipelineThrows =>
            /\ PipelineReturned'
            /\ ~presult'.success
            /\ Len(presult'.errors) = Len(perrors) + 1
            /\ SubSeq(presult'.errors, 1, Len(perrors)) = perrors
            /\ PipelineErrorEntries(presult'.errors) = {Len(perrors) + 1}]_vars
    /\ [](PipelineReturned =>
            /\ presult.errors = perrors
            /\ Cardinality(PipelineErrorEntries(presult.errors)) <= 1
            /\ presult.success => PipelineErrorEntries(presult.errors) = {})

\* a run that threw while it wrote, after a page object file was modified and
\* with a warning of Phase I already in errors
C13_Witness ==
    /\ PipelineReturned
    /\ ~presult.success
    /\ writes # <<>>
    /\ presult.modifiedFiles # <<>>
    /\ vpc = "idle"
    /\ PipelineErrorEntries(presult.errors) = {Len(presult.errors)}

\* the repository root is missing, or none of the page object directories
\* reconnaissance looks for is under it
NoRecognizableLayout ==
    \/ repoPath \notin dirs
    \/ \A k \in 1..Len(PAGE_OBJECT_CANDIDATES) : repoPath \o PAGE_OBJECT_CANDIDATES[k] \notin dirs

\* C14: on a repository root that is missing or has no recognizable layout,
\* Phase I does not throw: the run goes on to Phase II with a context
\* classified UNKNOWN and an empty page object index.
C14_ReconnaissanceDegrades ==
    [][(ppc = "start" /\ NoRecognizableLayout) =>
            /\ ppc' = "phase2"
            /\ repoContext'.repoType = "UNKNOWN"
            /\ pindex' = <<>>]_vars

\* the failed execution whose result the loop holds classifies as type
FailedAs(type) == vpc = "ran" /\ ~result.passed /\ classifyError(result.stderr).type = type

\* C15: when the diagnostic text of a failed execution classifies as Unknown,
\* the next step of verifyAndFix returns not passed, with the error recorded,
\* no fix derived, the test file as it was and no further execution, whatever
\* number of attempts remains; nothing follows the return.
C15_UnknownEndsLoop ==
    /\ [][FailedAs("Unknown") =>
            /\ VerifyDone'
            /\ ~outcome'.passed
            /\ verrors' = Append(verrors, classifyError(result.stderr))
            /\ UNCHANGED <<fixes, testFile, testRuns>>]_vars
    /\ [][~VerifyDone]_vars

\* the first execution of three failed with an unclassified text, and the
\* loop has returned
C15_Witness ==
    /\ VerifyDone
    /\ maxRetries = MaxRetriesBound
    /\ testRuns = 1
    /\ verrors # <<>> /\ verrors[Len(verrors)].type = "Unknown"
    /\ fixes = <<>>
    /\ testFile = GeneratedTestContent

\* C19: when a failed execution classified as StaleElement and another
\* attempt remains, the test file the next attempt executes holds the
\* re-query placeholder.
C19_StaleRepairWritten ==
    (/\ vpc = "attempt"
     /\ attempt <= maxRetries
     /\ verrors # <<>>
     /\ verrors[Len(verrors)].type = "StaleElement")
        => \E i \in 1..Len(testFile) : LineIncludes(testFile[i], "// Re-query the element")

\* C16: once the caller's timeout has elapsed during a test execution, the
\* run is aborted as a whole: no further test execution is started and no
\* further fix is written to the test file; and no test process is running
\* when the pipeline has returned.
C16_TimeoutAbortsRun ==
    /\ [][timeoutElapsed => UNCHANGED <<testRuns, testFile>>]_vars
    /\ [](PipelineReturned => vpc # "running")

\* C17: a role selector is mapped to an existing property (a direct hit) only
\* if an indexed locator entry has its value and its name qualifier; with the
\* role of an entry and another name it is mapped as a new property.
C17_RoleDirectHitNeedsName ==
    \A j \in 1..Len(mappings) :
        (mappings[j].selector.type = "role" /\ ~mappings[j].isNewProperty) =>
            \E c \in 1..Len(pageObjectIndex) : \E l \in 1..Len(pageObjectIndex[c].locators) :
                /\ pageObjectIndex[c].locators[l].selectorValue = mappings[j].selector.value
                /\ pageObjectIndex[c].locators[l].selectorName = mappings[j].selector.name

\* C18: every line read that is a direct action on the page with a quoted
\* selector as first argument has given a token whose locator is the
\* LocatorInfo of that literal (testid when it is identifier-like, css
\* otherwise).
C18_DirectActionLocator ==
    \A k \in 1..Len(rawLines) :
        (k < ti /\ directActionSelector(rawLines[k]) # <<>>) =>
            \E t \in 1..Len(tokens) :
                /\ tokens[t].lineNumber = k
                /\ tokens[t].locator = parseLocator(directActionSelector(rawLines[k]))

\* The ranked candidates mapOrphan computed for the j-th mapping: its selector
\* was mapped at its first token, with the token before it as anchor.
ScoresOfMapping(j) ==
    LET first == Min({k \in 1..Len(tokens) : tokens[k].locator = mappings[j].selector})
        anchorToken == IF first > 1 THEN tokens[first - 1] ELSE Tok("null", NullLocator, <<>>, FALSE)
    IN  semanticScoring(mappings[j].selector, pageObjectIndex, anchorInference(anchorToken, pageObjectIndex))

\* The mapping was scored and its two best candidates are within 0.1
CloseCall(j) ==
    /\ mappings[j].isNewProperty
    /\ Len(ScoresOfMapping(j)) >= 2
    /\ ~MarginAboveTenth(ScoresOfMapping(j)[1].score, ScoresOfMapping(j)[2].score)

LayoutCandidates(j) ==
    {k \in 1..Len(ScoresOfMapping(j)) : includes(toLowerCase(ScoresOfMapping(j)[k].className), <<"l", "a", "y", "o", "u", "t">>)}

\* C20: when the two best candidates of a scored mapping are within 0.1, the
\* target class is a candidate whose name contains layout if the keywords of
\* the selector meet the global terms of the +0.2 bonus (logout included);
\* otherwise the one of the two best with strictly more indexed locators;
\* otherwise the best candidate.
C20_TieBreakOrder ==
    \A j \in 1..Len(mappings) :
        CloseCall(j) =>
            LET scores == ScoresOfMapping(j)
                top == LocatorCount(pageObjectIndex, scores[1].className)
                second == LocatorCount(pageObjectIndex, scores[2].className)
            IN  IF /\ extractSelectorKeywords(mappings[j].selector) \cap scoringGlobalKeywords # {}
                   /\ LayoutCandidates(j) # {}
                THEN includes(toLowerCase(mappings[j].targetClass), <<"l", "a", "y", "o", "u", "t">>)
                ELSE IF top > second THEN mappings[j].targetClass = scores[1].className
                ELSE IF second > top THEN mappings[j].targetClass = scores[2].className
                ELSE mappings[j].targetClass = scores[1].className

\* C27: every repair verifyAndFix writes to the test file is followed by a
\* test execution of the repaired file: a step that changes the file leaves
\* an attempt of the retry budget to run it.
C27_RepairIsReRun ==
    [][testFile' # testFile => attempt' <= maxRetries]_vars

\* C28: a selector that is not a direct hit is mapped, on a non-empty index,
\* to a candidate whose score is at most 0.1 below the best score.
C28_TargetNearTop ==
    \A j \in 1..Len(mappings) :
        (mappings[j].isNewProperty /\ Len(pageObjectIndex) > 0) =>
            \E k \in 1..Len(ScoresOfMapping(j)) :
                /\ ScoresOfMapping(j)[k].className = mappings[j].targetClass
                /\ ~MarginAboveTenth(ScoresOfMapping(j)[1].score, ScoresOfMapping(j)[k].score)

\* C30: in apply mode each iteration over the staged modifications writes
\* the modification to the file its class was indexed from and lists that
\* path in modifiedFiles; it drops the modification only when the indexed
\* file does not exist.
C30_ModsReachIndexedFiles ==
    [][(ppc = "apply" /\ pmi <= Len(pmods) /\ pmi' = pmi + 1) =>
          IF pmods[pmi].filePath \in DOMAIN files
          THEN /\ files'[pmods[pmi].filePath] = applyPageObjectMod(files[pmods[pmi].filePath], pmods[pmi])
               /\ modifiedFiles' = Append(modifiedFiles, pmods[pmi].filePath)
          ELSE UNCHANGED <<files, modifiedFiles>>]_vars

\* The property names the index holds for a class
IndexedProperties(className) ==
    UNION {{pageObjectIndex[c].locators[l].propertyName : l \in 1..Len(pageObjectIndex[c].locators)} :
           c \in {c \in 1..Len(pageObjectIndex) : pageObjectIndex[c].className = className}}

\* C29: within one target class the property names of the new-property
\* mappings are pairwise distinct and none is a property name the class
\* already has in the index.
C29_NewPropertyNamesDistinct ==
    \A j \in 1..Len(mappings) :
        mappings[j].isNewProperty =>
            /\ mappings[j].targetProperty \notin IndexedProperties(mappings[j].targetClass)
            /\ \A i \in 1..(j - 1) :
                   (mappings[i].isNewProperty /\ mappings[i].targetClass = mappings[j].targetClass) =>
                       mappings[i].targetProperty # mappings[j].targetProperty

\* A line that trim() leaves empty
IsBlankLine(line) == \A k \in 1..Len(line) : line[k] \in Whitespace \cup {""}

\* The labelled block of a modification: its new properties, then its new methods
InsertedBlock(mod) ==
    (IF Len(mod.newProperties) > 0
     THEN << <<>>, <<"  // Auto-generated properties">> >> \o mod.newProperties ELSE <<>>)
    \o (IF Len(mod.newMethods) > 0
        THEN << <<>>, <<"  // Auto-generated methods">> >> \o mod.newMethods ELSE <<>>)

\* new is old with the block of mod inserted after the blank lines that follow
\* the insertion point of mod, and nothing else changed
SplicedAfterBlanks(old, new, mod) ==
    \E i \in 0..Len(old) :
        /\ new = SubSeq(old, 1, i) \o InsertedBlock(mod) \o SubSeq(old, i + 1, Len(old))
        /\ IF mod.insertionPoint > Len(old) THEN i = Len(old)
           ELSE /\ i >= mod.insertionPoint - 1
                /\ \A n \in mod.insertionPoint..i : IsBlankLine(old[n])
                /\ i = Len(old) \/ ~IsBlankLine(old[i + 1])

\* C22: applyPageObjectMod only inserts lines: a page object file changes only
\* when a staged modification is applied to it, and then the new content is
\* the old content with the labelled block (new properties before new
\* methods) inserted after any blank lines that follow the insertion point;
\* deleting the block gives back the old content line for line.
C22_ApplyOnlyInserts ==
    [][\A p \in DOMAIN files :
          (p \in DOMAIN files' /\ files'[p] # files[p]) =>
              /\ ppc = "apply"
              /\ pmi <= Len(pmods)
              /\ SplicedAfterBlanks(files[p], files'[p], pmods[pmi])]_vars

\* LayoutPage.ts after a modification with a property and a method: the blank
\* line at the insertion point is kept in place and the block follows it
C22_Witness ==
    \E p \in DOMAIN files :
        /\ Len(files[p]) = Len(LayoutPageFile) + 8
        /\ SubSeq(files[p], 1, 3) = SubSeq(LayoutPageFile, 1, 3)
        /\ files[p][5] = <<"  // Auto-generated properties">>
        /\ files[p][8] = <<"  // Auto-generated methods">>
        /\ files[p][Len(files[p])] = LayoutPageFile[Len(LayoutPageFile)]

(***************************************************************************)
(* Synthesizer: page object modifications and the generated test           *)
(***************************************************************************)
MaxSynthTokens == 2

\* The text of an action name inside a template literal
actionText(action) ==
    CASE action = "click" -> <<"c", "l", "i", "c", "k">> [] action = "fill" -> <<"f", "i", "l", "l">> [] action = "type" -> <<"t", "y", "p", "e">>
      [] action = "check" -> <<"c", "h", "e", "c", "k">> [] action = "uncheck" -> <<"u", "n", "c", "h", "e", "c", "k">> [] action = "press" -> <<"p", "r", "e", "s", "s">>
      [] action = "hover" -> <<"h", "o", "v", "e", "r">> [] action = "dblclick" -> <<"d", "b", "l", "c", "l", "i", "c", "k">>
      [] action = "textContent" -> <<"t", "e", "x", "t", "C", "o", "n", "t", "e", "n", "t">> [] action = "innerText" -> <<"i", "n", "n", "e", "r", "T", "e", "x", "t">>
      [] action = "inputValue" -> <<"i", "n", "p", "u", "t", "V", "a", "l", "u", "e">> [] action = "assign" -> <<"a", "s", "s", "i", "g", "n">>
      [] action = "expect" -> <<"e", "x", "p", "e", "c", "t">> [] action = "goto" -> <<"g", "o", "t", "o">>
      [] action = "waitForURL" -> <<"w", "a", "i", "t", "F", "o", "r", "U", "R", "L">> [] OTHER -> <<"o", "t", "h", "e", "r">>

generateMethodName(cluster) ==
    LET words(value) == SplitFrom(value, {"-", "_"}, 1, <<>>)
        camel(w, restLower) ==
            Concat([i \in 1..Len(w) |->
                       IF i = 1 THEN toLowerCase(w[i])
                       ELSE IF w[i] = <<>> THEN <<>>
                       ELSE toUpperCase(<<w[i][1]>>)
                            \o (IF restLower THEN toLowerCase(Tail(w[i])) ELSE Tail(w[i]))])
        clicks == SelectSeq(cluster.tokens, LAMBDA t : t.action = "click")
    IN  CASE cluster.type = "MENU_INTERACTION" ->
                IF Len(clicks) >= 2 /\ clicks[Len(clicks)].locator.type # "null"
                THEN camel(words(clicks[Len(clicks)].locator.value), TRUE)
                ELSE <<"p", "e", "r", "f", "o", "r", "m", "M", "e", "n", "u", "A", "c", "t", "i", "o", "n">>
          [] cluster.type = "FORM_SUBMISSION" -> <<"f", "i", "l", "l", "F", "o", "r", "m">>
          [] cluster.type = "AUTHENTICATION" -> <<"l", "o", "g", "i", "n">>
          [] OTHER ->
                IF cluster.tokens[1].locator.type # "null"
                THEN actionText(cluster.tokens[1].action)
                     \o Capitalize(camel(words(cluster.tokens[1].locator.value), FALSE))
                ELSE <<"p", "e", "r", "f", "o", "r", "m", "A", "c", "t", "i", "o", "n">>

\* The method text as its lines (the source joins them with line breaks)
generateMethod(cluster, maps, style) ==
    LET found(token) == {j \in 1..Len(maps) : /\ maps[j].selector.value = token.locator.value
                                              /\ maps[j].selector.type = token.locator.type}
        locatorRef(mapping) ==
            <<"t", "h", "i", "s", ".">> \o mapping.targetProperty
            \o (IF style.locatorStyle = "WrapperClass" THEN <<".", "c", "o", "n", "t", "r", "o", "l", "L", "o", "c", "a", "t", "o", "r">> ELSE <<>>)
        statement(token, ref) ==
            CASE token.action = "click" -> << <<" ", " ", " ", " ", "a", "w", "a", "i", "t", " ">> \o ref \o <<".", "c", "l", "i", "c", "k", "(", ")", ";">> >>
              [] token.action \in {"fill", "type"} ->
                    IF token.value # <<>>
                    THEN << <<" ", " ", " ", " ", "a", "w", "a", "i", "t", " ">> \o ref \o <<".", "f", "i", "l", "l", "(", "'">> \o token.value \o <<"'", ")", ";">> >>
                    ELSE <<>>
              [] token.action = "textContent" -> << <<" ", " ", " ", " ", "r", "e", "t", "u", "r", "n", " ", "a", "w", "a", "i", "t", " ">> \o ref \o <<".", "t", "e", "x", "t", "C", "o", "n", "t", "e", "n", "t", "(", ")", ";">> >>
              [] OTHER -> << <<" ", " ", " ", " ", "a", "w", "a", "i", "t", " ">> \o ref \o <<".">> \o actionText(token.action) \o <<"(", ")", ";">> >>
        body(token) ==
            IF token.isAssertion \/ token.locator.type = "null" \/ found(token) = {} THEN <<>>
            ELSE statement(token, locatorRef(maps[Min(found(token))]))
    IN  << <<" ", " ", "p", "u", "b", "l", "i", "c", " ", "a", "s", "y", "n", "c", " ">> \o generateMethodName(cluster) \o <<"(", ")", " ", "{">> >>
        \o Concat([k \in 1..Len(cluster.tokens) |-> body(cluster.tokens[k])])
        \o << <<" ", " ", "}">> >>

\* The groups of the Map, in insertion order: the target classes of the
\* mappings with isNewProperty, each with its mappings
groupMappingsByClass(maps) ==
    LET new == SelectSeq(maps, LAMBDA m : m.isNewProperty)
        firsts == {k \in 1..Len(new) : \A i \in 1..(k - 1) : new[i].targetClass # new[k].targetClass}
        nth(g) == CHOOSE k \in firsts : Cardinality({i \in firsts : i < k}) = g - 1
    IN  [g \in 1..Cardinality(firsts) |->
            [className |-> new[nth(g)].targetClass,
             mappings |-> SelectSeq(new, LAMBDA m : m.targetClass = new[nth(g)].targetClass)]]

\* The className, newProperties and newMethods of every PageObjectMod; each
\* method is the sequence of its lines. index[className] is the entry of the
\* class in the index.
generatePageObjectMods(maps, cls, index, style) ==
    LET indexed(group) == \E c \in 1..Len(index) : index[c].className = group.className
        found(token) == {j \in 1..Len(maps) : maps[j].selector.value = token.locator.value}
        mapsTo(token, className) ==
            /\ token.locator.type # "null"
            /\ found(token) # {}
            /\ maps[Min(found(token))].targetClass = className
        clusterMapsToClass(cluster, className) ==
            \E k \in 1..Len(cluster.tokens) : mapsTo(cluster.tokens[k], className)
        newMethods(className) ==
            Concat([c \in 1..Len(cls) |->
                       IF clusterMapsToClass(cls[c], className) /\ cls[c].type = "MENU_INTERACTION"
                       THEN << generateMethod(cls[c], maps, style) >>
                       ELSE <<>>])
        mod(group) ==
            [className |-> group.className,
             newProperties |-> [k \in 1..Len(group.mappings) |-> generateProperty(group.mappings[k], style)],
             newMethods |-> newMethods(group.className)]
        groups == SelectSeq(groupMappingsByClass(maps), indexed)
    IN  [g \in 1..Len(groups) |-> mod(groups[g])]

findFixtureForClass(className, registry) ==
    LET entries == {k \in 1..Len(registry) : registry[k].className = className}
    IN  IF entries # {} THEN registry[Min(entries)].fixtureName
        ELSE IF className = <<>> THEN <<>>
        ELSE toLowerCase(<<className[1]>>) \o Tail(className)

\* The statement of a token; <<>> stands for null (no statement is empty)
generateTestLine(token, maps, registry, style) ==
    LET byValue == {j \in 1..Len(maps) : maps[j].selector.value = token.locator.value}
        byValueAndType == {j \in byValue : maps[j].selector.type = token.locator.type}
        fixture(mapping) == findFixtureForClass(mapping.targetClass, registry)
        propRef(mapping) == fixture(mapping) \o <<".">> \o mapping.targetProperty
        assertion(mapping) ==
            <<"a", "w", "a", "i", "t", " ", "e", "x", "p", "e", "c", "t", "(">> \o propRef(mapping)
            \o (IF style.locatorStyle = "WrapperClass" THEN <<".", "c", "o", "n", "t", "r", "o", "l", "L", "o", "c", "a", "t", "o", "r">> ELSE <<>>)
            \o <<")", ".", "t", "o", "B", "e", "V", "i", "s", "i", "b", "l", "e", "(", ")", ";">>
        regular(mapping) ==
            CASE token.action = "click" ->
                    IF style.locatorStyle = "WrapperClass"
                    THEN <<"a", "w", "a", "i", "t", " ">> \o fixture(mapping) \o <<".", "c", "l", "i", "c", "k", "(">> \o propRef(mapping) \o <<")", ";">>
                    ELSE <<"a", "w", "a", "i", "t", " ">> \o propRef(mapping) \o <<".", "c", "l", "i", "c", "k", "(", ")", ";">>
              [] token.action \in {"fill", "type"} ->
                    IF style.locatorStyle = "WrapperClass"
                    THEN <<"a", "w", "a", "i", "t", " ">> \o fixture(mapping) \o <<".", "t", "y", "p", "e", "(">> \o propRef(mapping) \o <<",", " ", "'">>
                         \o token.value \o <<"'", ")", ";">>
                    ELSE <<"a", "w", "a", "i", "t", " ">> \o propRef(mapping) \o <<".", "f", "i", "l", "l", "(", "'">> \o token.value \o <<"'", ")", ";">>
              [] OTHER -> <<"a", "w", "a", "i", "t", " ">> \o propRef(mapping) \o <<".">> \o actionText(token.action) \o <<"(", ")", ";">>
    IN  IF token.action = "goto" THEN <<"a", "w", "a", "i", "t", " ", "p", "a", "g", "e", ".", "g", "o", "t", "o", "(", "'">> \o token.value \o <<"'", ")", ";">>
        ELSE IF token.action = "waitForURL" THEN <<"a", "w", "a", "i", "t", " ", "p", "a", "g", "e", ".", "w", "a", "i", "t", "F", "o", "r", "U", "R", "L", "(", "'">> \o token.value \o <<"'", ")", ";">>
        ELSE IF token.isAssertion /\ token.locator.type # "null" /\ byValue # {}
        THEN assertion(maps[Min(byValue)])
        ELSE IF token.locator.type # "null" /\ byValueAndType # {}
        THEN regular(maps[Min(byValueAndType)])
        ELSE IF token.actor # <<"p", "a", "g", "e">> /\ token.actor # <<>>
        THEN <<"a", "w", "a", "i", "t", " ">> \o token.actor \o <<".">> \o actionText(token.action) \o <<"(", ")", ";">>
        ELSE <<>>

\* A line of the generated test with this text; the comment of a cluster is
\* the line that carries its intent
TextLine(text) == [text |-> text, intent |-> [text |-> "", a |-> <<>>, b |-> <<>>]]

\* The fixtures and the content (as lines) of the GeneratedTest
generateTestFile(cls, maps, registry, testName, style) ==
    LET \* Array.from(requiredFixtures): the fixture names of the registry entries
        \* whose class is a mapping's target class, in insertion order
        entry(mapping) == {k \in 1..Len(registry) : registry[k].className = mapping.targetClass}
        hits == SelectSeq(maps, LAMBDA m : entry(m) # {})
        names == [j \in 1..Len(hits) |-> registry[Min(entry(hits[j]))].fixtureName]
        firsts == {j \in 1..Len(names) : \A i \in 1..(j - 1) : names[i] # names[j]}
        fixturesArray == [k \in 1..Cardinality(firsts) |->
                             names[CHOOSE j \in firsts : Cardinality({i \in firsts : i < j}) = k - 1]]
        \* the lines pushed for one cluster
        step(line) == IF line # <<>> THEN << TextLine(<<" ", " ", " ", " ">> \o line) >> ELSE <<>>
        clusterSteps(cluster) ==
            << [TextLine(<<>>) EXCEPT !.intent = cluster.intent] >>
            \o Concat([k \in 1..Len(cluster.tokens) |->
                          step(generateTestLine(cluster.tokens[k], maps, registry, style))])
            \o << TextLine(<<>>) >>
        hasTestTags == \E k \in 1..Len(style.importStatements) : includes(style.importStatements[k], <<"t", "e", "s", "t", "T", "a", "g", "s">>)
        imports == << <<"i", "m", "p", "o", "r", "t", " ", "{", " ", "t", "e", "s", "t", " ", "}", " ", "f", "r", "o", "m", " ", "'", ".", ".", "/", "p", "a", "g", "e", "s", "/", "f", "i", "x", "t", "u", "r", "e", "'">>, <<"i", "m", "p", "o", "r", "t", " ", "{", " ", "e", "x", "p", "e", "c", "t", " ", "}", " ", "f", "r", "o", "m", " ", "'", "@", "p", "l", "a", "y", "w", "r", "i", "g", "h", "t", "/", "t", "e", "s", "t", "'">> >>
                   \o (IF hasTestTags THEN << <<"i", "m", "p", "o", "r", "t", " ", "{", " ", "T", "e", "s", "t", "T", "a", "g", "s", " ", "}", " ", "f", "r", "o", "m", " ", "'", ".", ".", "/", "u", "t", "i", "l", "s", "/", "t", "e", "s", "t", "T", "a", "g", "s", "'">> >> ELSE <<>>)
        fixtureParams == Concat([k \in 1..Len(fixturesArray) |->
                                    (IF k > 1 THEN <<",", " ">> ELSE <<>>) \o fixturesArray[k]])
        tagPart == IF hasTestTags THEN <<",", " ", "{", " ", "t", "a", "g", ":", " ", "[", "T", "e", "s", "t", "T", "a", "g", "s", ".", "U", "I", "_", "S", "M", "O", "K", "E", "_", "T", "E", "S", "T", "]", " ", "}">> ELSE <<>>
        head == imports
                \o << <<>>,
                      <<"t", "e", "s", "t", ".", "d", "e", "s", "c", "r", "i", "b", "e", "(", "'">> \o testName \o <<"'", ",", " ", "(", ")", " ", "=", ">", " ", "{">>,
                      <<>>,
                      <<" ", " ", "/", "/", " ", "T", "e", "s", "t", " ", "d", "a", "t", "a">>,
                      <<" ", " ", "c", "o", "n", "s", "t", " ", "E", "M", "A", "I", "L", " ", "=", " ", "p", "r", "o", "c", "e", "s", "s", ".", "e", "n", "v", ".", "T", "E", "S", "T", "_", "E", "M", "A", "I", "L", " ", "|", "|", " ", "'", "t", "e", "s", "t", "@", "e", "x", "a", "m", "p", "l", "e", ".", "c", "o", "m", "'", ";">>,
                      <<" ", " ", "c", "o", "n", "s", "t", " ", "P", "A", "S", "S", "W", "O", "R", "D", " ", "=", " ", "p", "r", "o", "c", "e", "s", "s", ".", "e", "n", "v", ".", "T", "E", "S", "T", "_", "P", "A", "S", "S", "W", "O", "R", "D", " ", "|", "|", " ", "'", "p", "a", "s", "s", "w", "o", "r", "d", "1", "2", "3", "'", ";">>,
                      <<>>,
                      <<" ", " ", "t", "e", "s", "t", "(", "'", "Q", "A", " ", "T", "e", "s", "t", ":", " ">> \o testName \o <<"'">> \o tagPart \o <<",", " ", "a", "s", "y", "n", "c", " ", "(", "{", " ">> \o fixtureParams
                      \o <<" ", "}", ")", " ", "=", ">", " ", "{">> >>
    IN  [fixtures |-> fixturesArray,
         content |-> [k \in 1..Len(head) |-> TextLine(head[k])]
                     \o Concat([c \in 1..Len(cls) |-> clusterSteps(cls[c])])
                     \o << TextLine(<<" ", " ", "}", ")", ";">>), TextLine(<<"}", ")", ";">>), TextLine(<<>>) >>]

\* refactorPipeline, Phase III: mapAllOrphans(tokens, pageObjectIndex) is called
SynthMapAllOrphans ==
    /\ cpc = "done"
    /\ mpc = "idle"
    /\ mi' = 1
    /\ mappings' = <<>>
    /\ seen' = {}
    /\ mpc' = "loop"
    /\ UNCHANGED <<tokenizeVars, tokens, clusterVars, pageObjectIndex, verifyVars, renderVars, pipelineVars, synthVars>>

\* refactorPipeline, Phase IV: generatePageObjectMods
SynthGeneratePageObjectMods ==
    /\ mpc = "done"
    /\ spc = "idle"
    /\ pageObjectMods' = generatePageObjectMods(mappings, clusters, pageObjectIndex, styleVector)
    /\ spc' = "mods"
    /\ UNCHANGED <<tokenizeVars, tokens, clusterVars, mapVars, verifyVars, renderVars, pipelineVars,
                   fixtureRegistry, styleVector, generatedTestFile>>

\* refactorPipeline, Phase IV: generateTestFile
SynthGenerateTestFile ==
    /\ spc = "mods"
    /\ generatedTestFile' = generateTestFile(clusters, mappings, fixtureRegistry, <<"l", "o", "g", "i", "n">>, styleVector)
    /\ spc' = "done"
    /\ UNCHANGED <<tokenizeVars, tokens, clusterVars, mapVars, verifyVars, renderVars, pipelineVars,
                   fixtureRegistry, styleVector, pageObjectMods>>

\* The tokens of recordings; the last one is that of await page.click('#submit'),
\* which VARIABLE_ACTION_PATTERN matches with page as the variable
SynthTokenPool ==
    { Tok("goto", NullLocator, <<"/", "l", "o", "g", "i", "n">>, FALSE),
      fillEmail,
      clickSubmit,
      Tok("click", RoleLoc(<<"b", "u", "t", "t", "o", "n">>, <<"C", "a", "n", "c", "e", "l">>), <<>>, FALSE),
      Tok("click", Loc("testid", <<"u", "s", "e", "r", "-", "m", "e", "n", "u">>), <<>>, FALSE),
      Tok("click", RoleLoc(<<"l", "i", "n", "k">>, <<"S", "u", "b", "m", "i", "t">>), <<>>, FALSE),
      Tok("fill", Loc("placeholder", <<"S", "e", "a", "r", "c", "h">>), <<"s", "h", "o", "e", "s">>, FALSE),
      Tok("expect", Loc("text", <<"W", "e", "l", "c", "o", "m", "e">>), <<>>, TRUE),
      Tok("click", NullLocator, <<"#", "s", "u", "b", "m", "i", "t">>, FALSE) }

InitSynth ==
    /\ tokens \in {WithLines(f) : f \in SeqsUpTo(SynthTokenPool, MaxSynthTokens)}
    /\ ci = 1
    /\ clusters = <<>>
    /\ currentCluster = NewCluster(0, "GENERIC", [text |-> "", a |-> <<>>, b |-> <<>>], <<>>)
    /\ clusterIndex = 0
    /\ cpc = "loop"
    /\ pageObjectIndex \in { <<>>, <<LoginPageScenario>>, <<LoginPageFull, LayoutPage>> }
    /\ mi = 0
    /\ mappings = <<>>
    /\ seen = {}
    /\ mpc = "idle"
    \* discoverFixtures: no fixture file, or a fixture file with two fixtures
    /\ fixtureRegistry \in { <<>>,
                             << [fixtureName |-> <<"l", "o", "g", "i", "n">>, className |-> <<"L", "o", "g", "i", "n", "P", "a", "g", "e">>],
                                [fixtureName |-> <<"l", "a", "y", "o", "u", "t", "P", "a", "g", "e">>, className |-> <<"L", "a", "y", "o", "u", "t", "P", "a", "g", "e">>] >> }
    /\ styleVector \in { [locatorStyle |-> "Native", propertyVisibility |-> <<"r", "e", "a", "d", "o", "n", "l", "y">>,
                           wrapperClassName |-> <<"W", "e", "b", "C", "o", "n", "t", "r", "o", "l">>, importStatements |-> <<>>],
                          [locatorStyle |-> "WrapperClass", propertyVisibility |-> <<"r", "e", "a", "d", "o", "n", "l", "y">>,
                           wrapperClassName |-> <<"W", "e", "b", "C", "o", "n", "t", "r", "o", "l">>,
                           importStatements |-> << <<"i", "m", "p", "o", "r", "t", " ", "{", " ", "T", "e", "s", "t", "T", "a", "g", "s", " ", "}", " ", "f", "r", "o", "m", " ", "'", ".", ".", "/", "u", "t", "i", "l", "s", "/", "t", "e", "s", "t", "T", "a", "g", "s", "'">> >>] }
    /\ pageObjectMods = <<>>
    /\ generatedTestFile = [fixtures |-> <<>>, content |-> <<>>]
    /\ spc = "idle"
    /\ Idle({"cluster", "map", "synth"})

NextSynth ==
    \/ NextCluster
    \/ SynthMapAllOrphans
    \/ NextMap
    \/ SynthGeneratePageObjectMods
    \/ SynthGenerateTestFile

SpecSynth == InitSynth /\ [][NextSynth]_vars

\* The mapping mapAllOrphans created for the selector of a token: the one
\* with the same kind, value and qualifiers
OwnMappings(token) == {j \in 1..Len(mappings) : mappings[j].selector = token.locator}

\* The tokens of a cluster that carry a locator
LocatorTokens(cluster) == SelectSeq(cluster.tokens, LAMBDA t : t.locator.type # "null")

\* Every locator-bearing token of the cluster maps into the class
MapsEntirelyInto(cluster, className) ==
    \A k \in 1..Len(LocatorTokens(cluster)) :
        \A j \in OwnMappings(LocatorTokens(cluster)[k]) : mappings[j].targetClass = className

\* C21: the methods of a class's modification are those of the
\* MENU_INTERACTION clusters whose locator-bearing tokens all map into that
\* class, in cluster order; a cluster with a token mapped to a different class
\* gives no method for the class.
C21_MethodOnlyForOwnClusters ==
    spc # "idle" =>
        \A m \in 1..Len(pageObjectMods) :
            pageObjectMods[m].newMethods =
                Concat([c \in 1..Len(clusters) |->
                           IF clusters[c].type = "MENU_INTERACTION"
                              /\ MapsEntirelyInto(clusters[c], pageObjectMods[m].className)
                           THEN << generateMethod(clusters[c], mappings, styleVector) >>
                           ELSE <<>>])

\* C25: every mapping with isNewProperty has a modification for its target
\* class that contains its property line, also when the target class is
\* UnknownPage because the index is empty.
C25_NewPropertiesCovered ==
    spc # "idle" =>
        \A j \in 1..Len(mappings) :
            mappings[j].isNewProperty =>
                \E m \in 1..Len(pageObjectMods) :
                    /\ pageObjectMods[m].className = mappings[j].targetClass
                    /\ generateProperty(mappings[j], styleVector) \in Range(pageObjectMods[m].newProperties)

\* C23: the declared fixture parameters of the generated test contain, for
\* every mapping, the name findFixtureForClass gives for its target class
\* (the registry name, else the lower-camel class name), which is the handle
\* the statements of the body use.
C23_FixturesDeclared ==
    spc = "done" =>
        \A j \in 1..Len(mappings) :
            findFixtureForClass(mappings[j].targetClass, fixtureRegistry) \in Range(generatedTestFile.fixtures)

\* The number of lines before the steps of the first cluster
HeadLength == CHOOSE n \in 1..Len(generatedTestFile.content) :
                  /\ generatedTestFile.content[n].text # <<>>
                  /\ generatedTestFile.content[n].text[1] = " "
                  /\ includes(generatedTestFile.content[n].text, <<"t", "e", "s", "t", "(", "'", "Q", "A", " ", "T", "e", "s", "t", ":", " ">>)

\* The line of the intent comment of cluster c if every token before it has
\* one statement
StepsStart(c) ==
    HeadLength + 1 + Len(Concat([d \in 1..(c - 1) |-> <<0, 0>> \o [k \in 1..Len(clusters[d].tokens) |-> 0]]))

\* C24: for every cluster the generated test has one intent comment followed
\* by exactly one statement per token of the cluster, in token order, and then
\* the blank line that ends the cluster.
C24_StatementPerToken ==
    spc = "done" =>
        \A c \in 1..Len(clusters) :
            /\ StepsStart(c) + Len(clusters[c].tokens) + 1 <= Len(generatedTestFile.content)
            /\ generatedTestFile.content[StepsStart(c)] = [TextLine(<<>>) EXCEPT !.intent = clusters[c].intent]
            /\ \A k \in 1..Len(clusters[c].tokens) :
                  LET text == generatedTestFile.content[StepsStart(c) + k].text
                  IN  /\ Len(text) > Len(<<" ", " ", " ", " ", "a", "w", "a", "i", "t", " ">>)
                      /\ SubSeq(text, 1, Len(<<" ", " ", " ", " ", "a", "w", "a", "i", "t", " ">>)) = <<" ", " ", " ", " ", "a", "w", "a", "i", "t", " ">>
            /\ generatedTestFile.content[StepsStart(c) + Len(clusters[c].tokens) + 1] = TextLine(<<>>)

\* C26: the generated test holds, for every locator-bearing token, the
\* statement rendered against the mapping of the token's own selector, so two
\* tokens whose selectors differ in kind or in a qualifier are not rendered
\* against the same property.
C26_StatementUsesOwnMapping ==
    spc = "done" =>
        \A c \in 1..Len(clusters) :
            \A k \in 1..Len(LocatorTokens(clusters[c])) :
                \A j \in OwnMappings(LocatorTokens(clusters[c])[k]) :
                    TextLine(<<" ", " ", " ", " ">> \o generateTestLine(LocatorTokens(clusters[c])[k], <<mappings[j]>>,
                                                       fixtureRegistry, styleVector))
                        \in Range(generatedTestFile.content)


====
